---- MODULE Spec2Model ----
(***************************************************************************)
(* A model of the gopyte screen stack                                      *)
(*   NativeScreen -> HistoryScreen -> AlternateScreen -> WideCharScreen.   *)
(*                                                                         *)
(* The whole screen object is one record, w, whose fields carry the names  *)
(* of the Go struct fields.  Every method is an operator from a screen     *)
(* record to a screen record, translated statement by statement; Go method *)
(* promotion is resolved statically, as the compiler does: a method of an  *)
(* embedded struct that calls a.switchToAlternate() reaches the embedded   *)
(* struct's method, never an "override" of the embedding struct.           *)
(*                                                                         *)
(* Grids are sequences of rows, rows are sequences of cells.  Go indexes   *)
(* from 0, TLA+ from 1: cell (y, x) of grid m is m[y+1][x+1].  The actual  *)
(* shape of a grid is Len(m) and Len(m[y+1]); it is NOT assumed to equal   *)
(* (lines, columns).  An index outside the actual shape is a Go run-time   *)
(* panic, modelled by the field panic: a panicked screen takes no step.    *)
(*                                                                         *)
(* Slices are modelled by value.  Where Go aliases two slice headers       *)
(* (buffer/altBuffer while the alternate screen is active, buffer/         *)
(* mainBuffer on the main screen, cellWidths/mainCellWidths) the dormant   *)
(* name is overwritten before it is next read, so the alias is not         *)
(* observable and the dormant field keeps its last assigned value here.    *)
(***************************************************************************)
EXTENDS Integers, Sequences, FiniteSets, TLC

\* ---------------------------------------------------------------- bounds
MaxCols == 3
MaxLines == 2
MaxHist == 2
MaxSteps == 3
MaxScrollSteps == 4
MaxAltSteps == 5
MaxResizeLines == 3
MaxResizeSteps == 4
MaxSgrSteps == 2

\* ------------------------------------------------------- program constants
TabWidth == 8
ModeDECAWM == 7
ModeLNM == 20
ModeAlt47 == 47
ModeAlt1047 == 1047
ModeSaveCursor1048 == 1048
ModeAlt1049 == 1049

\* ---------------------------------------------------------------- runes
\* The code points the model draws with: a narrow letter, a wide (CJK)
\* character, a combining mark, and the two runes the code itself writes.
SP == "sp"
NUL == "nul"
RuneA == "a"
RuneB == "b"
RuneWide == "W"
RuneComb == "Z"
RuneE == "E"

\* runewidth.RuneWidth on the runes above
RuneWidth(ch) ==
  CASE ch = RuneWide -> 2
    [] ch = RuneComb -> 0
    [] ch = NUL -> 0
    [] OTHER -> 1

\* ------------------------------------------------------------ attributes
ZeroAttributes ==
  [Fg |-> "", Bg |-> "", Bold |-> FALSE, Italics |-> FALSE,
   Underscore |-> FALSE, Strikethrough |-> FALSE, Reverse |-> FALSE,
   Blink |-> FALSE]

DefaultAttributes == [ZeroAttributes EXCEPT !.Fg = "default", !.Bg = "default"]

\* Cursor{X: 0, Y: 0}: the attributes are Go's zero value
ZeroCursor == [X |-> 0, Y |-> 0, Attrs |-> ZeroAttributes, Hidden |-> FALSE]

OriginCursor == [X |-> 0, Y |-> 0, Attrs |-> DefaultAttributes, Hidden |-> FALSE]

\* ------------------------------------------------------------- helpers
Min(a, b) == IF a < b THEN a ELSE b

Max(a, b) == IF a > b THEN a ELSE b

\* make([]T, n) filled with v
MakeRow(n, v) == [i \in 1..n |-> v]

MakeGrid(rows, cols, v) == [i \in 1..rows |-> MakeRow(cols, v)]

\* copy(dst, src): the first min(len) elements of src overwrite dst
CopyInto(dst, src) ==
  [i \in 1..Len(dst) |-> IF i <= Len(src) THEN src[i] ELSE dst[i]]

RowOK(m, y) == y >= 0 /\ y < Len(m)

CellOK(m, y, x) == RowOK(m, y) /\ x >= 0 /\ x < Len(m[y + 1])

At(m, y, x) == m[y + 1][x + 1]

SetCell(m, y, x, v) == [m EXCEPT ![y + 1][x + 1] = v]

\* m[y][x] = v for x0 <= x <= x1 (nothing when the range is empty)
FillRange(m, y, x0, x1, v) ==
  IF x0 > x1 THEN m
  ELSE [m EXCEPT ![y + 1] =
          [i \in 1..Len(@) |-> IF i - 1 >= x0 /\ i - 1 <= x1 THEN v ELSE @[i]]]

\* whether the writes of FillRange stay inside the grid
RangeOK(m, y, x0, x1) ==
  x0 > x1 \/ (RowOK(m, y) /\ x0 >= 0 /\ x1 < Len(m[y + 1]))

\* m[y][x] = v for every y < rows, x < cols
FillGrid(m, rows, cols, v) ==
  [i \in 1..Len(m) |->
     IF i <= rows
     THEN [j \in 1..Len(m[i]) |-> IF j <= cols THEN v ELSE m[i][j]]
     ELSE m[i]]

GridOK(m, rows, cols) ==
  \/ rows <= 0
  \/ cols <= 0
  \/ (Len(m) >= rows /\ \A i \in 1..rows : Len(m[i]) >= cols)

DefaultTabStops(columns) == {i \in 0..(columns - 1) : i % TabWidth = 0}

Panic(s) == [s EXCEPT !.panic = TRUE]

\* run F on s unless s has already panicked
Then(s, F(_)) == IF s.panic THEN s ELSE F(s)

\* ------------------------------------------------------------ construction
\* NewNativeScreen + NewHistoryScreen + NewAlternateScreen + NewWideCharScreen
NewWideCharScreen(columns, lines, maxHistory) ==
  [columns |-> columns,
   lines |-> lines,
   buffer |-> MakeGrid(lines, columns, SP),
   attrs |-> MakeGrid(lines, columns, ZeroAttributes),
   cursor |-> ZeroCursor,
   saved |-> <<>>,                 \* nil, or <<cursor>>
   autoWrap |-> TRUE,
   newlineMode |-> TRUE,
   tabStops |-> DefaultTabStops(columns),
   history |-> <<>>,
   maxHistory |-> maxHistory,
   historyPos |-> 0,
   savedBuffer |-> <<>>,           \* nil is the empty grid
   savedAttrs |-> <<>>,
   savedCursor |-> ZeroCursor,
   viewingHistory |-> FALSE,
   mainBuffer |-> <<>>,
   mainAttrs |-> <<>>,
   mainCursor |-> ZeroCursor,
   mainTabStops |-> {},
   mainHistory |-> <<>>,
   altBuffer |-> MakeGrid(lines, columns, SP),
   altAttrs |-> MakeGrid(lines, columns, ZeroAttributes),
   altCursor |-> ZeroCursor,
   altTabStops |-> DefaultTabStops(columns),
   usingAlternate |-> FALSE,
   cellWidths |-> MakeGrid(lines, columns, 1),
   altCellWidths |-> MakeGrid(lines, columns, 1),
   mainCellWidths |-> MakeGrid(lines, columns, 1),
   panic |-> FALSE]

\* ------------------------------------------------------------ NativeScreen
Backspace(s) ==
  IF s.cursor.X > 0 THEN [s EXCEPT !.cursor.X = @ - 1] ELSE s

Tab(s) ==
  LET next == {x \in (s.cursor.X + 1)..(s.columns - 1) : x \in s.tabStops}
  IN IF next # {}
     THEN [s EXCEPT !.cursor.X = CHOOSE x \in next : \A z \in next : x <= z]
     ELSE [s EXCEPT !.cursor.X = s.columns - 1]

CarriageReturn(s) == [s EXCEPT !.cursor.X = 0]

CursorUp(s, count) == [s EXCEPT !.cursor.Y = Max(@ - count, 0)]

CursorDown(s, count) ==
  [s EXCEPT !.cursor.Y = IF @ + count >= s.lines THEN s.lines - 1 ELSE @ + count]

CursorUp1(s, count) == [CursorUp(s, count) EXCEPT !.cursor.X = 0]

CursorDown1(s, count) == [CursorDown(s, count) EXCEPT !.cursor.X = 0]

\* clamp of a 0-based coordinate: < 0 gives 0, >= n gives n - 1
Clamp(v, n) == IF v < 0 THEN 0 ELSE IF v >= n THEN n - 1 ELSE v

CursorPosition(s, line, column) ==
  [s EXCEPT !.cursor.Y = Clamp(line - 1, s.lines),
            !.cursor.X = Clamp(column - 1, s.columns)]

CursorToColumn(s, column) == [s EXCEPT !.cursor.X = Clamp(column - 1, s.columns)]

CursorToLine(s, line) == [s EXCEPT !.cursor.Y = Clamp(line - 1, s.lines)]

SetTabStop(s) == [s EXCEPT !.tabStops = @ \cup {s.cursor.X}]

ClearTabStop(s, how) ==
  CASE how = 0 -> [s EXCEPT !.tabStops = @ \ {s.cursor.X}]
    [] how = 3 -> [s EXCEPT !.tabStops = {}]
    [] OTHER -> s

SaveCursor(s) == [s EXCEPT !.saved = <<s.cursor>>]

RestoreCursor(s) ==
  IF s.saved # <<>> THEN [s EXCEPT !.cursor = s.saved[1]] ELSE s

\* copy(m[0:], m[1:]): every row but the last takes its successor
ShiftRowsUp(m) == [i \in 1..Len(m) |-> IF i < Len(m) THEN m[i + 1] ELSE m[i]]

\* scrollUp / scrollUpInternal / scrollUpNoHistory: the three bodies are the
\* same statements.  The fresh last row holds spaces and zero Attributes.
scrollUpInternal(s) ==
  LET last == s.lines - 1
  IN IF Len(s.buffer) = 0 \/ Len(s.attrs) = 0 \/ ~RowOK(s.buffer, last)
        \/ ~RowOK(s.attrs, last)
     THEN Panic(s)
     ELSE [s EXCEPT
             !.buffer = [ShiftRowsUp(s.buffer) EXCEPT
                           ![last + 1] = MakeRow(s.columns, SP)],
             !.attrs = [ShiftRowsUp(s.attrs) EXCEPT
                          ![last + 1] = MakeRow(s.columns, ZeroAttributes)]]

scrollUpNoHistory(s) == scrollUpInternal(s)

\* copy(m[1:], m[0:lines-1]) then a fresh row 0
ShiftRowsDown(m, lines) ==
  [i \in 1..Len(m) |-> IF i >= 2 /\ i - 1 <= lines - 1 THEN m[i - 1] ELSE m[i]]

scrollDown(s) ==
  IF Len(s.buffer) = 0 \/ Len(s.attrs) = 0 \/ s.lines - 1 > Len(s.buffer)
     \/ s.lines - 1 > Len(s.attrs)
  THEN Panic(s)
  ELSE [s EXCEPT
          !.buffer = [ShiftRowsDown(s.buffer, s.lines) EXCEPT
                        ![1] = MakeRow(s.columns, SP)],
          !.attrs = [ShiftRowsDown(s.attrs, s.lines) EXCEPT
                       ![1] = MakeRow(s.columns, ZeroAttributes)]]

ReverseIndex(s) ==
  IF s.cursor.Y - 1 < 0
  THEN Then(scrollDown(s), LAMBDA t : [t EXCEPT !.cursor.Y = 0])
  ELSE [s EXCEPT !.cursor.Y = @ - 1]

\* one iteration of the loop of InsertLines, cursor row Y < lines
InsertLine1(s) ==
  LET Y == s.cursor.Y
      shift(m) == [i \in 1..Len(m) |->
                     IF i - 1 >= Y + 1 /\ i - 1 <= s.lines - 1 THEN m[i - 1] ELSE m[i]]
      ok(m) == Y >= 0 /\ Y + 1 <= Len(m) /\ s.lines - 1 <= Len(m)
  IN IF ~ok(s.buffer) \/ ~ok(s.attrs)
     THEN Panic(s)
     ELSE [s EXCEPT
             !.buffer = [shift(s.buffer) EXCEPT ![Y + 1] = MakeRow(s.columns, SP)],
             !.attrs = [shift(s.attrs) EXCEPT
                          ![Y + 1] = MakeRow(s.columns, ZeroAttributes)]]

RECURSIVE InsertLines(_, _)
InsertLines(s, count) ==
  IF count <= 0 \/ s.panic \/ ~(s.cursor.Y < s.lines) THEN s
  ELSE InsertLines(InsertLine1(s), count - 1)

\* one iteration of the loop of DeleteLines, cursor row Y < lines
DeleteLine1(s) ==
  LET Y == s.cursor.Y
      last == s.lines - 1
      shift(m) == IF Y < last
                  THEN [i \in 1..Len(m) |->
                          IF i - 1 >= Y /\ i < Len(m) THEN m[i + 1] ELSE m[i]]
                  ELSE m
      ok(m) == (Y < last => (Y >= 0 /\ Y + 1 <= Len(m))) /\ RowOK(m, last)
  IN IF ~ok(s.buffer) \/ ~ok(s.attrs)
     THEN Panic(s)
     ELSE [s EXCEPT
             !.buffer = [shift(s.buffer) EXCEPT ![last + 1] = MakeRow(s.columns, SP)],
             !.attrs = [shift(s.attrs) EXCEPT
                          ![last + 1] = MakeRow(s.columns, ZeroAttributes)]]

RECURSIVE DeleteLines(_, _)
DeleteLines(s, count) ==
  IF count <= 0 \/ s.panic \/ ~(s.cursor.Y < s.lines) THEN s
  ELSE DeleteLines(DeleteLine1(s), count - 1)

\* one iteration of InsertCharacters on the cursor row (runes only)
InsertChar1(s) ==
  LET X == s.cursor.X
      line == s.buffer[s.cursor.Y + 1]
  IN IF X < 0 \/ X + 1 > Len(line) \/ s.columns - 1 > Len(line)
     THEN Panic(s)
     ELSE [s EXCEPT !.buffer[s.cursor.Y + 1] =
             [i \in 1..Len(line) |->
                IF i - 1 = X THEN SP
                ELSE IF i - 1 >= X + 1 /\ i - 1 <= s.columns - 1 THEN line[i - 1]
                ELSE line[i]]]

RECURSIVE InsertCharsLoop(_, _)
InsertCharsLoop(s, count) ==
  IF count <= 0 \/ s.panic \/ ~(s.cursor.X < s.columns) THEN s
  ELSE InsertCharsLoop(InsertChar1(s), count - 1)

InsertCharacters(s, count) ==
  IF ~RowOK(s.buffer, s.cursor.Y) THEN Panic(s) ELSE InsertCharsLoop(s, count)

\* one iteration of DeleteCharacters on the cursor row (runes only)
DeleteChar1(s) ==
  LET X == s.cursor.X
      line == s.buffer[s.cursor.Y + 1]
      shifted == IF X < s.columns - 1
                 THEN [i \in 1..Len(line) |->
                         IF i - 1 >= X /\ i < Len(line) THEN line[i + 1] ELSE line[i]]
                 ELSE line
  IN IF (X < s.columns - 1 /\ (X < 0 \/ X + 1 > Len(line)))
        \/ s.columns - 1 >= Len(line)
     THEN Panic(s)
     ELSE [s EXCEPT !.buffer[s.cursor.Y + 1] = [shifted EXCEPT ![s.columns] = SP]]

RECURSIVE DeleteCharsLoop(_, _)
DeleteCharsLoop(s, count) ==
  IF count <= 0 \/ s.panic \/ ~(s.cursor.X < s.columns) THEN s
  ELSE DeleteCharsLoop(DeleteChar1(s), count - 1)

DeleteCharacters(s, count) ==
  IF ~RowOK(s.buffer, s.cursor.Y) THEN Panic(s) ELSE DeleteCharsLoop(s, count)

\* NativeScreen.EraseInLine: runes only, attributes and widths untouched
EraseInLine(s, how) ==
  LET X == s.cursor.X
      x0 == IF how = 0 THEN X ELSE 0
      x1 == IF how = 1 THEN Min(X, s.columns - 1) ELSE s.columns - 1
  IN IF how \notin {0, 1, 2} THEN s
     ELSE IF ~RangeOK(s.buffer, s.cursor.Y, x0, x1) THEN Panic(s)
     ELSE [s EXCEPT !.buffer = FillRange(s.buffer, s.cursor.Y, x0, x1, SP)]

\* m[y][x] = v for y0 <= y <= y1 and x < cols
FillRows(m, y0, y1, cols, v) ==
  [i \in 1..Len(m) |->
     IF i - 1 >= y0 /\ i - 1 <= y1
     THEN [j \in 1..Len(m[i]) |-> IF j <= cols THEN v ELSE m[i][j]]
     ELSE m[i]]

RowsOK(m, y0, y1, cols) ==
  \/ y0 > y1
  \/ cols <= 0
  \/ (y0 >= 0 /\ y1 < Len(m) /\ \A i \in (y0 + 1)..(y1 + 1) : Len(m[i]) >= cols)

NativeEraseInDisplay(s, how) ==
  LET y0 == IF how = 0 THEN s.cursor.Y + 1 ELSE 0
      y1 == IF how = 1 THEN s.cursor.Y - 1 ELSE s.lines - 1
      rest(t) == IF ~RowsOK(t.buffer, y0, y1, t.columns) THEN Panic(t)
                 ELSE [t EXCEPT !.buffer = FillRows(t.buffer, y0, y1, t.columns, SP)]
  IN CASE how \in {0, 1} -> Then(EraseInLine(s, how), rest)
       [] how \in {2, 3} -> rest(s)
       [] OTHER -> s

AlignmentDisplay(s) ==
  IF ~GridOK(s.buffer, s.lines, s.columns) THEN Panic(s)
  ELSE [s EXCEPT !.buffer = FillGrid(s.buffer, s.lines, s.columns, RuneE)]

\* NativeScreen.SetMode / ResetMode: one mode of the list
NativeSetMode1(s, mode, private, on) ==
  IF private /\ mode = ModeDECAWM THEN [s EXCEPT !.autoWrap = on]
  ELSE IF ~private /\ mode = ModeLNM THEN [s EXCEPT !.newlineMode = on]
  ELSE s

NativeReset(s) ==
  IF ~GridOK(s.buffer, s.lines, s.columns) \/ ~GridOK(s.attrs, s.lines, s.columns)
  THEN Panic(s)
  ELSE [s EXCEPT
          !.buffer = FillGrid(s.buffer, s.lines, s.columns, SP),
          !.attrs = FillGrid(s.attrs, s.lines, s.columns, ZeroAttributes),
          !.cursor = ZeroCursor,
          !.saved = <<>>,
          !.autoWrap = TRUE,
          !.newlineMode = TRUE,
          !.tabStops = DefaultTabStops(s.columns)]

\* ----------------------------------------------------------- HistoryScreen
\* a faulty trim: a full history refuses the new line (the newest is dropped)
PushHistoryDropNewest(hist, line, maxHistory) ==
  IF Len(hist) >= maxHistory THEN hist ELSE Append(hist, line)

\* the list after PushBack(line) and the trim to maxHistory
PushHistory(hist, line, maxHistory) ==
  LET pushed == Append(hist, line)
  IN IF Len(pushed) > maxHistory THEN Tail(pushed) ELSE pushed

addToHistory(s, lineNum) ==
  IF ~(lineNum >= 0 /\ lineNum < s.lines) THEN s
  ELSE IF ~RowOK(s.buffer, lineNum) \/ ~RowOK(s.attrs, lineNum) THEN Panic(s)
  ELSE LET line == [Chars |-> CopyInto(MakeRow(s.columns, NUL), s.buffer[lineNum + 1]),
                    Attrs |-> CopyInto(MakeRow(s.columns, ZeroAttributes),
                                       s.attrs[lineNum + 1])]
       IN [s EXCEPT !.history = PushHistory(s.history, line, s.maxHistory)]

HistoryLinefeed(s) ==
  LET moved == IF s.cursor.Y = s.lines - 1
               THEN Then(addToHistory(s, 0), scrollUpInternal)
               ELSE [s EXCEPT !.cursor.Y = @ + 1]
  IN IF moved.panic THEN moved
     ELSE IF moved.newlineMode THEN [moved EXCEPT !.cursor.X = 0]
     ELSE moved

HistoryIndex(s) ==
  IF s.cursor.Y = s.lines - 1
  THEN Then(addToHistory(s, 0), scrollUpInternal)
  ELSE [s EXCEPT !.cursor.Y = @ + 1]

saveCurrentScreen(s) ==
  IF Len(s.buffer) < s.lines \/ Len(s.attrs) < s.lines THEN Panic(s)
  ELSE [s EXCEPT
          !.savedBuffer = [i \in 1..s.lines |->
                             CopyInto(MakeRow(s.columns, NUL), s.buffer[i])],
          !.savedAttrs = [i \in 1..s.lines |->
                            CopyInto(MakeRow(s.columns, ZeroAttributes), s.attrs[i])],
          !.savedCursor = s.cursor]

restoreCurrentScreen(s) ==
  IF s.savedBuffer # <<>>
  THEN [s EXCEPT
          !.buffer = s.savedBuffer,
          !.attrs = s.savedAttrs,
          !.cursor = [s.savedCursor EXCEPT !.Hidden = FALSE],
          !.savedBuffer = <<>>,
          !.savedAttrs = <<>>]
  ELSE s

\* renderHistoryView: the view is historyPos history lines (from startLine
\* on) followed by rows of the saved live screen from savedStart on
renderHistoryViewShared(s) ==
  LET n == Len(s.history)
      startLine == Max(n + s.lines - s.historyPos - s.lines, 0)
      fromHist == Min(n - startLine, s.lines)
      savedStart == IF s.historyPos <= s.lines THEN s.lines - s.historyPos ELSE 0
      useSaved == fromHist < s.lines /\ s.savedBuffer # <<>>
      nSaved == IF useSaved THEN Min(s.lines - savedStart, s.lines - fromHist) ELSE 0
      histChars == [k \in 1..n |-> s.history[k].Chars]
      histAttrs == [k \in 1..n |-> s.history[k].Attrs]
      row(i, blank, cur, hist, saved) ==
        LET cleared == [j \in 1..Len(cur[i]) |->
                          IF j <= s.columns THEN blank ELSE cur[i][j]]
        IN IF i <= fromHist THEN CopyInto(cleared, hist[startLine + i])
           ELSE IF i <= fromHist + nSaved
           THEN CopyInto(cleared, saved[savedStart + (i - fromHist)])
           ELSE cleared
  IN IF ~GridOK(s.buffer, s.lines, s.columns) \/ ~GridOK(s.attrs, s.lines, s.columns)
        \/ (nSaved > 0 /\ (Len(s.savedBuffer) < savedStart + nSaved
                           \/ Len(s.savedAttrs) < savedStart + nSaved))
     THEN Panic(s)
     ELSE [s EXCEPT
             !.buffer = [i \in 1..Len(s.buffer) |->
                           IF i <= s.lines
                           THEN row(i, SP, s.buffer, histChars, s.savedBuffer)
                           ELSE s.buffer[i]],
             !.attrs = [i \in 1..Len(s.attrs) |->
                          IF i <= s.lines
                          THEN row(i, ZeroAttributes, s.attrs, histAttrs, s.savedAttrs)
                          ELSE s.attrs[i]],
             !.history = [k \in 1..n |->
                            [Chars |-> MakeRow(s.columns, SP),
                             Attrs |-> MakeRow(s.columns, ZeroAttributes)]],
             !.cursor.Hidden = TRUE]

renderHistoryView(s) ==
  LET n == Len(s.history)
      startLine == Max(n + s.lines - s.historyPos - s.lines, 0)
      fromHist == Min(n - startLine, s.lines)
      savedStart == IF s.historyPos <= s.lines THEN s.lines - s.historyPos ELSE 0
      useSaved == fromHist < s.lines /\ s.savedBuffer # <<>>
      nSaved == IF useSaved THEN Min(s.lines - savedStart, s.lines - fromHist) ELSE 0
      histChars == [k \in 1..n |-> s.history[k].Chars]
      histAttrs == [k \in 1..n |-> s.history[k].Attrs]
      row(i, blank, cur, hist, saved) ==
        LET cleared == [j \in 1..Len(cur[i]) |->
                          IF j <= s.columns THEN blank ELSE cur[i][j]]
        IN IF i <= fromHist THEN CopyInto(cleared, hist[startLine + i])
           ELSE IF i <= fromHist + nSaved
           THEN CopyInto(cleared, saved[savedStart + (i - fromHist)])
           ELSE cleared
  IN IF ~GridOK(s.buffer, s.lines, s.columns) \/ ~GridOK(s.attrs, s.lines, s.columns)
        \/ (nSaved > 0 /\ (Len(s.savedBuffer) < savedStart + nSaved
                           \/ Len(s.savedAttrs) < savedStart + nSaved))
     THEN Panic(s)
     ELSE [s EXCEPT
             !.buffer = [i \in 1..Len(s.buffer) |->
                           IF i <= s.lines
                           THEN row(i, SP, s.buffer, histChars, s.savedBuffer)
                           ELSE s.buffer[i]],
             !.attrs = [i \in 1..Len(s.attrs) |->
                          IF i <= s.lines
                          THEN row(i, ZeroAttributes, s.attrs, histAttrs, s.savedAttrs)
                          ELSE s.attrs[i]],
             !.cursor.Hidden = TRUE]

HistoryScrollUp(s, lines) ==
  LET t == IF ~s.viewingHistory
           THEN Then(saveCurrentScreen(s), LAMBDA u : [u EXCEPT !.viewingHistory = TRUE])
           ELSE s
      n == Min(lines, Len(t.history) - t.historyPos)
  IN IF t.panic \/ n <= 0 THEN t
     ELSE renderHistoryView([t EXCEPT !.historyPos = @ + n])

HistoryScrollDown(s, lines) ==
  IF ~s.viewingHistory THEN s
  ELSE IF s.historyPos - lines <= 0
  THEN [restoreCurrentScreen([s EXCEPT !.historyPos = 0]) EXCEPT
          !.viewingHistory = FALSE]
  ELSE renderHistoryView([s EXCEPT !.historyPos = @ - lines])

HistoryScrollToBottom(s) ==
  IF s.viewingHistory
  THEN [restoreCurrentScreen([s EXCEPT !.historyPos = 0]) EXCEPT
          !.viewingHistory = FALSE]
  ELSE s

\* a faulty EraseInDisplay: the full-screen erase keeps the history
EraseInDisplayKeepsHistory(s, how) ==
  NativeEraseInDisplay(HistoryScrollToBottom(s), how)

\* HistoryScreen.EraseInDisplay (promoted unchanged up to WideCharScreen)
EraseInDisplay(s, how) ==
  LET erased == NativeEraseInDisplay(HistoryScrollToBottom(s), how)
  IN IF erased.panic THEN erased
     ELSE IF how \in {2, 3} THEN [erased EXCEPT !.history = <<>>, !.historyPos = 0]
     ELSE erased

HistoryReset(s) ==
  Then(NativeReset(s),
       LAMBDA t : [t EXCEPT !.history = <<>>, !.historyPos = 0,
                            !.viewingHistory = FALSE,
                            !.savedBuffer = <<>>, !.savedAttrs = <<>>])

\* a row cut or padded to exactly n cells
ResizeRow(row, n, pad) == [j \in 1..n |-> IF j <= Len(row) THEN row[j] ELSE pad]

\* a grid cut or padded to exactly rows x cols
ResizeGrid(m, rows, cols, pad) ==
  [i \in 1..rows |-> IF i <= Len(m) THEN ResizeRow(m[i], cols, pad)
                     ELSE MakeRow(cols, pad)]

\* NativeScreen.Resize: every row to newCols (padding with space and
\* DefaultAttributes), the row vector to newLines, the cursor clamped
NativeResize(s, newCols, newLines) ==
  [s EXCEPT
     !.buffer = ResizeGrid(s.buffer, newLines, newCols, SP),
     !.attrs = ResizeGrid(s.attrs, newLines, newCols, DefaultAttributes),
     !.columns = newCols,
     !.lines = newLines,
     !.cursor.X = Clamp(@, newCols),
     !.cursor.Y = Clamp(@, newLines)]

\* a faulty capture: the cut rows are added bottom row first
RECURSIVE AddRowsBottomUp(_, _, _)
AddRowsBottomUp(s, from, upto) ==
  IF from >= upto \/ s.panic THEN s
  ELSE AddRowsBottomUp(addToHistory(s, upto - 1), from, upto - 1)

\* addToHistory(i) for i = from, ..., upto - 1
RECURSIVE AddRowsToHistory(_, _, _)
AddRowsToHistory(s, from, upto) ==
  IF from >= upto \/ s.panic THEN s
  ELSE AddRowsToHistory(addToHistory(s, from), from + 1, upto)

\* HistoryScreen.Resize; it is also what w.AlternateScreen.Resize resolves
\* to, AlternateScreen declaring no Resize of its own
HistoryResize(s, newCols, newLines) ==
  IF newCols <= 0 \/ newLines <= 0 THEN s
  ELSE LET live == HistoryScrollToBottom(s)
           cut == IF newLines < live.lines
                  THEN AddRowsToHistory(live, newLines, live.lines)
                  ELSE live
       IN Then(cut, LAMBDA t : NativeResize(t, newCols, newLines))

\* --------------------------------------------------------- AlternateScreen
switchToAlternateKeepsView(s) ==
  IF ~GridOK(s.altBuffer, s.lines, s.columns)
     \/ ~GridOK(s.altAttrs, s.lines, s.columns)
  THEN Panic(s)
  ELSE LET ab == FillGrid(s.altBuffer, s.lines, s.columns, SP)
           aa == FillGrid(s.altAttrs, s.lines, s.columns, DefaultAttributes)
       IN [s EXCEPT
             !.mainBuffer = s.buffer,
             !.mainAttrs = s.attrs,
             !.mainCursor = s.cursor,
             !.mainTabStops = s.tabStops,
             !.mainHistory = s.history,
             !.altBuffer = ab,
             !.altAttrs = aa,
             !.buffer = ab,
             !.attrs = aa,
             !.cursor = OriginCursor,
             !.tabStops = s.altTabStops,
             !.history = <<>>,
             !.usingAlternate = TRUE]

switchToAlternate(s) ==
  IF ~GridOK(s.altBuffer, s.lines, s.columns)
     \/ ~GridOK(s.altAttrs, s.lines, s.columns)
  THEN Panic(s)
  ELSE LET ab == FillGrid(s.altBuffer, s.lines, s.columns, SP)
           aa == FillGrid(s.altAttrs, s.lines, s.columns, DefaultAttributes)
       IN [s EXCEPT
             !.mainBuffer = s.buffer,
             !.mainAttrs = s.attrs,
             !.mainCursor = s.cursor,
             !.mainTabStops = s.tabStops,
             !.mainHistory = s.history,
             !.altBuffer = ab,
             !.altAttrs = aa,
             !.buffer = ab,
             !.attrs = aa,
             !.cursor = OriginCursor,
             !.tabStops = s.altTabStops,
             !.history = <<>>,
             !.usingAlternate = TRUE,
             !.viewingHistory = FALSE,
             !.historyPos = IF s.viewingHistory THEN 0 ELSE @]

switchToMain(s) ==
  IF ~s.usingAlternate THEN s
  ELSE [s EXCEPT
          !.altBuffer = s.buffer,
          !.altAttrs = s.attrs,
          !.altCursor = s.cursor,
          !.altTabStops = s.tabStops,
          !.buffer = s.mainBuffer,
          !.attrs = s.mainAttrs,
          !.cursor = s.mainCursor,
          !.tabStops = s.mainTabStops,
          !.history = s.mainHistory,
          !.usingAlternate = FALSE]

IsAltMode(mode) == mode \in {ModeAlt1049, ModeAlt1047, ModeAlt47}

\* a faulty switch: an alternate-screen mode switches even when the
\* alternate buffer is already active
AltSetMode1Always(s, mode) ==
  IF IsAltMode(mode) THEN switchToAlternate(s)
  ELSE IF mode = ModeSaveCursor1048
  THEN IF s.usingAlternate THEN [s EXCEPT !.altCursor = s.cursor]
       ELSE [s EXCEPT !.mainCursor = s.cursor]
  ELSE s

\* the switch of AlternateScreen.SetMode for one private mode
AltSetMode1(s, mode) ==
  IF IsAltMode(mode)
  THEN IF ~s.usingAlternate THEN switchToAlternate(s) ELSE s
  ELSE IF mode = ModeSaveCursor1048
  THEN IF s.usingAlternate THEN [s EXCEPT !.altCursor = s.cursor]
       ELSE [s EXCEPT !.mainCursor = s.cursor]
  ELSE s

\* the switch of AlternateScreen.ResetMode for one private mode
AltResetMode1(s, mode) ==
  IF IsAltMode(mode)
  THEN IF s.usingAlternate THEN switchToMain(s) ELSE s
  ELSE IF mode = ModeSaveCursor1048
  THEN IF s.usingAlternate THEN [s EXCEPT !.cursor = s.altCursor]
       ELSE [s EXCEPT !.cursor = s.mainCursor]
  ELSE s

RECURSIVE AltSetModes(_, _)
AltSetModes(s, modes) ==
  IF modes = <<>> \/ s.panic THEN s
  ELSE AltSetModes(AltSetMode1(s, Head(modes)), Tail(modes))

RECURSIVE AltResetModes(_, _)
AltResetModes(s, modes) ==
  IF modes = <<>> \/ s.panic THEN s
  ELSE AltResetModes(AltResetMode1(s, Head(modes)), Tail(modes))

RECURSIVE NativeSetModes(_, _, _, _)
NativeSetModes(s, modes, private, on) ==
  IF modes = <<>> \/ s.panic THEN s
  ELSE NativeSetModes(NativeSetMode1(s, Head(modes), private, on), Tail(modes),
                      private, on)

SetMode(s, modes, private) ==
  NativeSetModes(IF private THEN AltSetModes(s, modes) ELSE s, modes, private, TRUE)

ResetMode(s, modes, private) ==
  NativeSetModes(IF private THEN AltResetModes(s, modes) ELSE s, modes, private, FALSE)

Linefeed(s) ==
  IF s.usingAlternate
  THEN LET moved == IF s.cursor.Y = s.lines - 1 THEN scrollUpNoHistory(s)
                    ELSE [s EXCEPT !.cursor.Y = @ + 1]
       IN IF moved.panic THEN moved
          ELSE IF moved.newlineMode THEN [moved EXCEPT !.cursor.X = 0]
          ELSE moved
  ELSE HistoryLinefeed(s)

Index(s) ==
  IF s.usingAlternate
  THEN IF s.cursor.Y = s.lines - 1 THEN scrollUpNoHistory(s)
       ELSE [s EXCEPT !.cursor.Y = @ + 1]
  ELSE HistoryIndex(s)

\* a faulty Reset: the alternate slot keeps the cursor it is called with
ResetKeepsAltCursor(s) ==
  LET main == IF s.usingAlternate THEN switchToMain(s) ELSE s
      base == HistoryReset(main)
  IN IF base.panic THEN base
     ELSE IF ~GridOK(base.altBuffer, base.lines, base.columns)
             \/ ~GridOK(base.altAttrs, base.lines, base.columns)
     THEN Panic(base)
     ELSE [base EXCEPT
             !.altBuffer = FillGrid(@, base.lines, base.columns, SP),
             !.altAttrs = FillGrid(@, base.lines, base.columns, DefaultAttributes),
             !.altCursor = s.cursor,
             !.altTabStops = DefaultTabStops(base.columns)]

Reset(s) ==
  LET main == IF s.usingAlternate THEN switchToMain(s) ELSE s
      base == HistoryReset(main)
  IN IF base.panic THEN base
     ELSE IF ~GridOK(base.altBuffer, base.lines, base.columns)
             \/ ~GridOK(base.altAttrs, base.lines, base.columns)
     THEN Panic(base)
     ELSE [base EXCEPT
             !.altBuffer = FillGrid(@, base.lines, base.columns, SP),
             !.altAttrs = FillGrid(@, base.lines, base.columns, DefaultAttributes),
             !.altCursor = OriginCursor,
             !.altTabStops = DefaultTabStops(base.columns)]

\* a faulty ScrollUp: the view scrolls in alternate mode too
ScrollUpInAlternate(s, lines) == HistoryScrollUp(s, lines)

ScrollUp(s, lines) == IF ~s.usingAlternate THEN HistoryScrollUp(s, lines) ELSE s

ScrollDown(s, lines) == IF ~s.usingAlternate THEN HistoryScrollDown(s, lines) ELSE s

ScrollToBottom(s) == IF ~s.usingAlternate THEN HistoryScrollToBottom(s) ELSE s

\* ------------------------------------------- Draw below the wide layer
\* NativeScreen.Draw: the placement writes the rune only
RECURSIVE NativeDraw(_, _)
NativeDraw(s, text) ==
  IF text = <<>> \/ s.panic THEN s
  ELSE LET wrapped ==
             IF s.cursor.X >= s.columns
             THEN IF s.autoWrap
                  THEN IF s.cursor.Y + 1 >= s.lines
                       THEN Then(scrollUpInternal(s),
                                 LAMBDA t : [t EXCEPT !.cursor.X = 0,
                                                      !.cursor.Y = s.lines - 1])
                       ELSE [s EXCEPT !.cursor.X = 0, !.cursor.Y = @ + 1]
                  ELSE [s EXCEPT !.cursor.X = s.columns - 1]
             ELSE s
           X == wrapped.cursor.X
           Y == wrapped.cursor.Y
           placed ==
             IF wrapped.panic \/ ~(Y < wrapped.lines /\ X < wrapped.columns)
             THEN wrapped
             ELSE IF ~CellOK(wrapped.buffer, Y, X) THEN Panic(wrapped)
             ELSE [wrapped EXCEPT !.buffer = SetCell(@, Y, X, Head(text)),
                                  !.cursor.X = @ + 1]
       IN NativeDraw(placed, Tail(text))

\* the loop of HistoryScreen.Draw
RECURSIVE HistoryDrawLoop(_, _)
HistoryDrawLoop(s, text) ==
  IF text = <<>> \/ s.panic THEN s
  ELSE LET wrapped ==
             IF s.cursor.X >= s.columns
             THEN IF s.autoWrap
                  THEN IF s.cursor.Y >= s.lines - 1
                       THEN Then(Then(addToHistory(s, 0), scrollUpInternal),
                                 LAMBDA t : [t EXCEPT !.cursor.X = 0])
                       ELSE [s EXCEPT !.cursor.X = 0, !.cursor.Y = @ + 1]
                  ELSE [s EXCEPT !.cursor.X = s.columns - 1]
             ELSE s
           X == wrapped.cursor.X
           Y == wrapped.cursor.Y
           placed ==
             IF wrapped.panic \/ ~(Y < wrapped.lines /\ X < wrapped.columns)
             THEN wrapped
             ELSE IF ~CellOK(wrapped.buffer, Y, X) \/ ~CellOK(wrapped.attrs, Y, X)
             THEN Panic(wrapped)
             ELSE [wrapped EXCEPT !.buffer = SetCell(@, Y, X, Head(text)),
                                  !.attrs = SetCell(@, Y, X, wrapped.cursor.Attrs),
                                  !.cursor.X = @ + 1]
       IN HistoryDrawLoop(placed, Tail(text))

\* HistoryScreen.Draw
HistoryDraw(s, text) == HistoryDrawLoop(HistoryScrollToBottom(s), text)

\* AlternateScreen.drawTextDirect
RECURSIVE drawTextDirect(_, _)
drawTextDirect(s, text) ==
  IF text = <<>> \/ s.panic THEN s
  ELSE LET wrapped ==
             IF s.cursor.X >= s.columns
             THEN IF s.autoWrap
                  THEN IF s.cursor.Y + 1 >= s.lines
                       THEN Then(scrollUpNoHistory(s),
                                 LAMBDA t : [t EXCEPT !.cursor.X = 0,
                                                      !.cursor.Y = s.lines - 1])
                       ELSE [s EXCEPT !.cursor.X = 0, !.cursor.Y = @ + 1]
                  ELSE [s EXCEPT !.cursor.X = s.columns - 1]
             ELSE s
           X == wrapped.cursor.X
           Y == wrapped.cursor.Y
           placed ==
             IF wrapped.panic \/ ~(Y < wrapped.lines /\ X < wrapped.columns)
             THEN wrapped
             ELSE IF ~CellOK(wrapped.buffer, Y, X) \/ ~CellOK(wrapped.attrs, Y, X)
             THEN Panic(wrapped)
             ELSE [wrapped EXCEPT !.buffer = SetCell(@, Y, X, Head(text)),
                                  !.attrs = SetCell(@, Y, X, wrapped.cursor.Attrs),
                                  !.cursor.X = @ + 1]
       IN drawTextDirect(placed, Tail(text))

\* AlternateScreen.Draw
AlternateDraw(s, text) ==
  IF s.usingAlternate THEN drawTextDirect(s, text) ELSE HistoryDraw(s, text)

\* ---------------------------------------------------------- WideCharScreen
\* buffer[y][x], attrs[y][x], cellWidths[y][x] = ch, at, wd
SetAll(s, y, x, ch, at, wd) ==
  IF ~CellOK(s.buffer, y, x) \/ ~CellOK(s.attrs, y, x) \/ ~CellOK(s.cellWidths, y, x)
  THEN Panic(s)
  ELSE [s EXCEPT !.buffer = SetCell(@, y, x, ch),
                 !.attrs = SetCell(@, y, x, at),
                 !.cellWidths = SetCell(@, y, x, wd)]

RECURSIVE clearCellAt(_, _, _)
clearCellAt(s, y, x) ==
  IF y >= s.lines \/ x >= s.columns THEN s
  ELSE IF ~CellOK(s.cellWidths, y, x) THEN Panic(s)
  ELSE LET width == At(s.cellWidths, y, x)
       IN IF width = 0 /\ x > 0 THEN clearCellAt(s, y, x - 1)
          ELSE LET one == SetAll(s, y, x, SP, DefaultAttributes, 1)
               IN IF one.panic THEN one
                  ELSE IF width = 2 /\ x + 1 < s.columns
                  THEN SetAll(one, y, x + 1, SP, DefaultAttributes, 1)
                  ELSE one

\* a faulty handleZeroWidth: the combining mark overwrites the rune of the
\* cell before the cursor
handleZeroWidthStores(s) ==
  IF s.cursor.X > 0 /\ CellOK(s.buffer, s.cursor.Y, s.cursor.X - 1)
  THEN [s EXCEPT !.buffer = SetCell(@, s.cursor.Y, s.cursor.X - 1, RuneComb)]
  ELSE s

\* handleZeroWidth changes nothing; it only reads cells, and a read outside
\* the grid panics
handleZeroWidth(s) ==
  LET X == s.cursor.X
      Y == s.cursor.Y
  IN IF X > 0
     THEN IF ~CellOK(s.cellWidths, Y, X - 1) THEN Panic(s)
          ELSE LET prevX == IF At(s.cellWidths, Y, X - 1) = 2 /\ X - 1 > 0
                            THEN X - 2 ELSE X - 1
               IN IF ~CellOK(s.buffer, Y, prevX) THEN Panic(s) ELSE s
     ELSE IF Y > 0
     THEN LET prevY == Y - 1
              \* the cells the loop reads, right to left, until one is not 0
              scanOK == /\ RowOK(s.cellWidths, prevY)
                        /\ \A x \in 0..(s.columns - 1) :
                             (\A z \in (x + 1)..(s.columns - 1) :
                                 CellOK(s.cellWidths, prevY, z)
                                 /\ At(s.cellWidths, prevY, z) = 0)
                             => CellOK(s.cellWidths, prevY, x)
          IN IF ~scanOK THEN Panic(s)
             ELSE LET nonzero == {x \in 0..(s.columns - 1) :
                                     At(s.cellWidths, prevY, x) # 0}
                      prevX == IF nonzero = {} THEN -1
                               ELSE CHOOSE x \in nonzero : \A z \in nonzero : z <= x
                  IN IF prevX >= 0 /\ ~CellOK(s.buffer, prevY, prevX)
                     THEN Panic(s) ELSE s
     ELSE s

\* a faulty autowrap: the cursor moves to the next row but keeps its column
WrapAdvanceKeepsColumn(s) ==
  IF s.cursor.Y + 1 >= s.lines
  THEN LET scrolled == IF s.usingAlternate THEN scrollUpNoHistory(s)
                       ELSE Then(addToHistory(s, 0), scrollUpInternal)
       IN IF scrolled.panic THEN scrolled
          ELSE [scrolled EXCEPT !.cursor.Y = s.lines - 1]
  ELSE [s EXCEPT !.cursor.Y = @ + 1]

\* the autowrap advance of drawChar
WrapAdvance(s) ==
  IF s.cursor.Y + 1 >= s.lines
  THEN LET scrolled == IF s.usingAlternate THEN scrollUpNoHistory(s)
                       ELSE Then(addToHistory(s, 0), scrollUpInternal)
       IN IF scrolled.panic THEN scrolled
          ELSE [scrolled EXCEPT !.cursor.X = 0, !.cursor.Y = s.lines - 1]
  ELSE [s EXCEPT !.cursor.X = 0, !.cursor.Y = @ + 1]

\* the placement of drawChar, after any wrap
PlaceChar(s, ch, charWidth) ==
  LET X == s.cursor.X
      Y == s.cursor.Y
  IN IF ~(Y < s.lines /\ X < s.columns) THEN s
     ELSE LET cleared == clearCellAt(s, Y, X)
              start == Then(cleared,
                            LAMBDA t : SetAll(t, Y, X, ch, t.cursor.Attrs, charWidth))
              cont == IF ~start.panic /\ charWidth = 2 /\ X + 1 < s.columns
                      THEN SetAll(start, Y, X + 1, NUL, start.cursor.Attrs, 0)
                      ELSE start
          IN IF cont.panic THEN cont
             ELSE [cont EXCEPT !.cursor.X = @ + charWidth]

\* a faulty drawChar: a character that ends exactly at the last column is
\* treated as not fitting
drawCharWrapsEarly(s, ch) ==
  LET charWidth == RuneWidth(ch)
  IN IF charWidth = 0 THEN handleZeroWidth(s)
     ELSE IF s.cursor.X + charWidth >= s.columns
     THEN IF s.autoWrap
          THEN Then(WrapAdvance(s), LAMBDA t : PlaceChar(t, ch, charWidth))
          ELSE s
     ELSE PlaceChar(s, ch, charWidth)

drawChar(s, ch) ==
  LET charWidth == RuneWidth(ch)
  IN IF charWidth = 0 THEN handleZeroWidth(s)
     ELSE IF s.cursor.X + charWidth > s.columns
     THEN IF s.autoWrap
          THEN Then(WrapAdvance(s), LAMBDA t : PlaceChar(t, ch, charWidth))
          ELSE s
     ELSE PlaceChar(s, ch, charWidth)

RECURSIVE DrawLoop(_, _)
DrawLoop(s, text) ==
  IF text = <<>> \/ s.panic THEN s
  ELSE DrawLoop(drawChar(s, Head(text)), Tail(text))

\* a faulty Draw: it draws without leaving the history view
DrawNoRestore(s, text) == DrawLoop(s, text)

\* WideCharScreen.Draw
Draw(s, text) ==
  DrawLoop(IF ~s.usingAlternate /\ s.viewingHistory THEN ScrollToBottom(s) ELSE s,
           text)

\* the inner loop of CursorBack: skip continuation cells leftwards
RECURSIVE SkipBack(_, _)
SkipBack(s, x) ==
  IF ~(x > 0) THEN [s EXCEPT !.cursor.X = x]
  ELSE IF ~CellOK(s.cellWidths, s.cursor.Y, x) THEN Panic(s)
  ELSE IF At(s.cellWidths, s.cursor.Y, x) = 0 THEN SkipBack(s, x - 1)
  ELSE [s EXCEPT !.cursor.X = x]

RECURSIVE CursorBackLoop(_, _)
CursorBackLoop(s, count) ==
  IF count <= 0 \/ s.panic \/ s.cursor.X <= 0 THEN s
  ELSE CursorBackLoop(SkipBack(s, s.cursor.X - 1), count - 1)

CursorBack(s, count) ==
  Then(CursorBackLoop(s, count),
       LAMBDA t : IF t.cursor.X < 0 THEN [t EXCEPT !.cursor.X = 0] ELSE t)

RECURSIVE CursorForwardLoop(_, _)
CursorForwardLoop(s, count) ==
  IF count <= 0 \/ s.panic \/ s.cursor.X >= s.columns - 1 THEN s
  ELSE IF ~CellOK(s.cellWidths, s.cursor.Y, s.cursor.X) THEN Panic(s)
  ELSE CursorForwardLoop(
         [s EXCEPT !.cursor.X =
            IF At(s.cellWidths, s.cursor.Y, s.cursor.X) = 2 THEN @ + 2 ELSE @ + 1],
         count - 1)

CursorForward(s, count) ==
  Then(CursorForwardLoop(s, count),
       LAMBDA t : IF t.cursor.X >= t.columns
                  THEN [t EXCEPT !.cursor.X = t.columns - 1] ELSE t)

RECURSIVE EraseCharsLoop(_, _, _)
EraseCharsLoop(s, x, count) ==
  IF count <= 0 \/ s.panic \/ ~(x < s.columns) THEN s
  ELSE LET t == clearCellAt(s, s.cursor.Y, x)
       IN IF t.panic THEN t
          ELSE IF x < t.columns - 1 /\ ~CellOK(t.cellWidths, t.cursor.Y, x + 1)
          THEN Panic(t)
          ELSE EraseCharsLoop(
                 t,
                 IF x < t.columns - 1 /\ At(t.cellWidths, t.cursor.Y, x + 1) = 0
                 THEN x + 2 ELSE x + 1,
                 count - 1)

\* WideCharScreen.EraseCharacters
EraseCharacters(s, count) == EraseCharsLoop(s, s.cursor.X, count)

\* whether GetDisplay reads only cells inside the grids
GetDisplayOK(s) ==
  /\ GridOK(s.cellWidths, s.lines, s.columns)
  /\ \A y \in 0..(s.lines - 1) : \A x \in 0..(s.columns - 1) :
       At(s.cellWidths, y, x) # 0 => CellOK(s.buffer, y, x)

\* the runes of row y that GetDisplay keeps, over columns x ..
RECURSIVE DisplayRow(_, _, _)
DisplayRow(s, y, x) ==
  IF x >= s.columns THEN <<>>
  ELSE IF At(s.cellWidths, y, x) = 0 \/ At(s.buffer, y, x) = NUL
  THEN DisplayRow(s, y, x + 1)
  ELSE <<At(s.buffer, y, x)>> \o DisplayRow(s, y, x + 1)

\* WideCharScreen.GetDisplay: one string (sequence of runes) per line
GetDisplay(s) == [i \in 1..s.lines |-> DisplayRow(s, i - 1, 0)]

rebuildWidthGrid(grid, newCols, newLines) == ResizeGrid(grid, newLines, newCols, 1)

\* step 4 of WideCharScreen.Resize: a cell whose rune is 0 becomes a blank
SanitizeCell(s, y, x) ==
  IF At(s.buffer, y, x) = NUL THEN SetAll(s, y, x, SP, DefaultAttributes, 1) ELSE s

RECURSIVE SanitizeFrom(_, _, _)
SanitizeFrom(s, y, x) ==
  IF s.panic \/ y >= s.lines THEN s
  ELSE IF ~RowOK(s.buffer, y) \/ ~RowOK(s.attrs, y) \/ ~RowOK(s.cellWidths, y)
  THEN Panic(s)
  ELSE IF x >= Min(Len(s.buffer[y + 1]), Len(s.cellWidths[y + 1]))
  THEN SanitizeFrom(s, y + 1, 0)
  ELSE SanitizeFrom(SanitizeCell(s, y, x), y, x + 1)

\* a faulty Resize: no early return on non-positive arguments
ResizeUnguarded(s, newCols, newLines) ==
       LET base == HistoryResize(s, newCols, newLines)
           geo == [base EXCEPT !.columns = newCols, !.lines = newLines]
       IN IF base.panic THEN base
          ELSE IF Len(geo.buffer) < newLines \/ Len(geo.attrs) < newLines
          THEN Panic(geo)
          ELSE LET norm ==
                     [geo EXCEPT
                        !.buffer = [i \in 1..Len(@) |->
                                      IF i <= newLines THEN ResizeRow(@[i], newCols, SP)
                                      ELSE @[i]],
                        !.attrs = [i \in 1..Len(@) |->
                                     IF i <= newLines
                                     THEN ResizeRow(@[i], newCols, DefaultAttributes)
                                     ELSE @[i]]]
                   cw == rebuildWidthGrid(norm.cellWidths, newCols, newLines)
                   grids == [norm EXCEPT
                               !.cellWidths = cw,
                               !.altCellWidths =
                                  rebuildWidthGrid(@, newCols, newLines),
                               !.mainCellWidths =
                                  IF ~norm.usingAlternate THEN cw ELSE @]
               IN SanitizeFrom(grids, 0, 0)

\* WideCharScreen.Resize
Resize(s, newCols, newLines) ==
  IF newCols <= 0 \/ newLines <= 0 THEN s
  ELSE LET base == HistoryResize(s, newCols, newLines)
           geo == [base EXCEPT !.columns = newCols, !.lines = newLines]
       IN IF base.panic THEN base
          ELSE IF Len(geo.buffer) < newLines \/ Len(geo.attrs) < newLines
          THEN Panic(geo)
          ELSE LET norm ==
                     [geo EXCEPT
                        !.buffer = [i \in 1..Len(@) |->
                                      IF i <= newLines THEN ResizeRow(@[i], newCols, SP)
                                      ELSE @[i]],
                        !.attrs = [i \in 1..Len(@) |->
                                     IF i <= newLines
                                     THEN ResizeRow(@[i], newCols, DefaultAttributes)
                                     ELSE @[i]]]
                   cw == rebuildWidthGrid(norm.cellWidths, newCols, newLines)
                   grids == [norm EXCEPT
                               !.cellWidths = cw,
                               !.altCellWidths =
                                  rebuildWidthGrid(@, newCols, newLines),
                               !.mainCellWidths =
                                  IF ~norm.usingAlternate THEN cw ELSE @]
               IN SanitizeFrom(grids, 0, 0)

\* ------------------------------------------------- SelectGraphicRendition
SgrColor(n) ==
  CASE n = 0 -> "black" [] n = 1 -> "red" [] n = 2 -> "green" [] n = 3 -> "brown"
    [] n = 4 -> "blue" [] n = 5 -> "magenta" [] n = 6 -> "cyan" [] OTHER -> "white"

\* color256ToString: fmt.Sprintf("color%d", n)
color256ToString(n) == "color" \o ToString(n)

\* the switch of SelectGraphicRendition for params[i] (1-based here) other
\* than 38 and 48
SgrSimple(a, p) ==
  CASE p = 0 -> DefaultAttributes
    [] p = 1 -> [a EXCEPT !.Bold = TRUE]
    [] p = 3 -> [a EXCEPT !.Italics = TRUE]
    [] p = 4 -> [a EXCEPT !.Underscore = TRUE]
    [] p = 5 -> [a EXCEPT !.Blink = TRUE]
    [] p = 7 -> [a EXCEPT !.Reverse = TRUE]
    [] p = 9 -> [a EXCEPT !.Strikethrough = TRUE]
    [] p = 22 -> [a EXCEPT !.Bold = FALSE]
    [] p = 23 -> [a EXCEPT !.Italics = FALSE]
    [] p = 24 -> [a EXCEPT !.Underscore = FALSE]
    [] p = 25 -> [a EXCEPT !.Blink = FALSE]
    [] p = 27 -> [a EXCEPT !.Reverse = FALSE]
    [] p = 29 -> [a EXCEPT !.Strikethrough = FALSE]
    [] p \in 30..37 -> [a EXCEPT !.Fg = SgrColor(p - 30)]
    [] p = 39 -> [a EXCEPT !.Fg = "default"]
    [] p \in 40..47 -> [a EXCEPT !.Bg = SgrColor(p - 40)]
    [] p = 49 -> [a EXCEPT !.Bg = "default"]
    [] OTHER -> a

\* a faulty decoder: 38;5;N and 48;5;N do not consume their two arguments
RECURSIVE SgrLoopNoSkip(_, _, _)
SgrLoopNoSkip(a, params, i) ==
  IF i > Len(params) THEN a
  ELSE IF params[i] \in {38, 48}
  THEN IF i + 2 <= Len(params) /\ params[i + 1] = 5
       THEN SgrLoopNoSkip(IF params[i] = 38
                          THEN [a EXCEPT !.Fg = color256ToString(params[i + 2])]
                          ELSE [a EXCEPT !.Bg = color256ToString(params[i + 2])],
                          params, i + 1)
       ELSE SgrLoopNoSkip(a, params, i + 1)
  ELSE SgrLoopNoSkip(SgrSimple(a, params[i]), params, i + 1)

RECURSIVE SgrLoop(_, _, _)
SgrLoop(a, params, i) ==
  IF i > Len(params) THEN a
  ELSE IF params[i] \in {38, 48}
  THEN IF i + 2 <= Len(params) /\ params[i + 1] = 5
       THEN SgrLoop(IF params[i] = 38
                    THEN [a EXCEPT !.Fg = color256ToString(params[i + 2])]
                    ELSE [a EXCEPT !.Bg = color256ToString(params[i + 2])],
                    params, i + 3)
       ELSE SgrLoop(a, params, i + 1)
  ELSE SgrLoop(SgrSimple(a, params[i]), params, i + 1)

SelectGraphicRendition(s, params) ==
  IF Len(params) = 0 \/ (Len(params) = 1 /\ params[1] = 0)
  THEN [s EXCEPT !.cursor.Attrs = DefaultAttributes]
  ELSE [s EXCEPT !.cursor.Attrs = SgrLoop(@, params, 1)]

\* ============================================================ state machine
VARIABLES
  w,      \* the WideCharScreen
  pre,    \* the screen before the last operation
  op,     \* the last operation: [name, args]
  entry,  \* <<the main screen on entering the alternate buffer>>, or <<>>
  steps   \* operations performed so far

vars == <<w, pre, op, entry, steps>>

\* ------------------------------------------------------------ inputs
Runes == {RuneA, RuneWide, RuneComb}

Texts == {<<c>> : c \in Runes} \cup {<<RuneA, RuneWide>>}

Counts == {1, 2}

Hows == {0, 1, 2, 3}

PrivateModes == {ModeDECAWM, ModeSaveCursor1048, ModeAlt1049}

ResizeCols == (-1)..MaxCols

ResizeLines == (-1)..MaxLines

InitScreens ==
  {NewWideCharScreen(c, l, h) : c \in 2..MaxCols, l \in 1..MaxLines, h \in 0..MaxHist}

Start(S) ==
  /\ w \in S
  /\ pre = w
  /\ op = [name |-> "New", args |-> <<>>]
  /\ entry = <<>>
  /\ steps = 0

\* the operations that draw, move the cursor, erase or feed lines
ContentOps ==
  {"Draw", "Linefeed", "Index", "ReverseIndex", "CarriageReturn", "Backspace",
   "Tab", "CursorUp", "CursorDown", "CursorUp1", "CursorDown1", "CursorForward",
   "CursorBack", "CursorPosition", "CursorToColumn", "CursorToLine",
   "InsertLines", "DeleteLines", "InsertCharacters", "DeleteCharacters",
   "EraseCharacters", "EraseInLine", "EraseInDisplay"}

\* the bookkeeping of the main screen as it was when the alternate buffer
\* was entered: taken on entry, kept across ContentOps and by the ResetMode
\* that leaves, dropped by every other operation
NextEntry(o, res) ==
  IF ~w.usingAlternate
  THEN IF res.usingAlternate /\ ~res.panic THEN <<w>> ELSE <<>>
  ELSE IF res.usingAlternate
  THEN IF o.name \in ContentOps THEN entry ELSE <<>>
  ELSE IF o.name = "ResetMode" THEN entry ELSE <<>>

\* one public operation o taking the screen to res, within B operations
Step(o, res, B) ==
  /\ ~w.panic
  /\ steps < B
  /\ w' = res
  /\ pre' = w
  /\ op' = o
  /\ entry' = NextEntry(o, res)
  /\ steps' = steps + 1

Op(name, args) == [name |-> name, args |-> args]

DoDraw(B) == \E t \in Texts : Step(Op("Draw", t), Draw(w, t), B)

DoLinefeed(B) == Step(Op("Linefeed", <<>>), Linefeed(w), B)

DoIndex(B) == Step(Op("Index", <<>>), Index(w), B)

DoReverseIndex(B) == Step(Op("ReverseIndex", <<>>), ReverseIndex(w), B)

DoCarriageReturn(B) == Step(Op("CarriageReturn", <<>>), CarriageReturn(w), B)

DoCursorUp(B) == \E n \in Counts : Step(Op("CursorUp", <<n>>), CursorUp(w, n), B)

DoCursorDown(B) == \E n \in Counts : Step(Op("CursorDown", <<n>>), CursorDown(w, n), B)

DoCursorForward(B) ==
  \E n \in Counts : Step(Op("CursorForward", <<n>>), CursorForward(w, n), B)

DoCursorBack(B) == \E n \in Counts : Step(Op("CursorBack", <<n>>), CursorBack(w, n), B)

DoCursorPosition(B) ==
  \E l \in 1..MaxLines, c \in 1..MaxCols :
    Step(Op("CursorPosition", <<l, c>>), CursorPosition(w, l, c), B)

DoSaveCursor(B) == Step(Op("SaveCursor", <<>>), SaveCursor(w), B)

DoRestoreCursor(B) == Step(Op("RestoreCursor", <<>>), RestoreCursor(w), B)

DoInsertLines(B) == \E n \in Counts : Step(Op("InsertLines", <<n>>), InsertLines(w, n), B)

DoDeleteLines(B) == \E n \in Counts : Step(Op("DeleteLines", <<n>>), DeleteLines(w, n), B)

DoInsertCharacters(B) ==
  \E n \in Counts : Step(Op("InsertCharacters", <<n>>), InsertCharacters(w, n), B)

DoDeleteCharacters(B) ==
  \E n \in Counts : Step(Op("DeleteCharacters", <<n>>), DeleteCharacters(w, n), B)

DoEraseCharacters(B) ==
  \E n \in Counts : Step(Op("EraseCharacters", <<n>>), EraseCharacters(w, n), B)

DoEraseInLine(B) ==
  \E how \in {0, 1, 2} : Step(Op("EraseInLine", <<how>>), EraseInLine(w, how), B)

DoEraseInDisplay(B) ==
  \E how \in Hows : Step(Op("EraseInDisplay", <<how>>), EraseInDisplay(w, how), B)

DoSetMode(B) ==
  \E m \in PrivateModes : Step(Op("SetMode", <<m>>), SetMode(w, <<m>>, TRUE), B)

DoResetMode(B) ==
  \E m \in PrivateModes : Step(Op("ResetMode", <<m>>), ResetMode(w, <<m>>, TRUE), B)

DoScrollUp(B) == \E n \in Counts : Step(Op("ScrollUp", <<n>>), ScrollUp(w, n), B)

DoScrollDown(B) == \E n \in Counts : Step(Op("ScrollDown", <<n>>), ScrollDown(w, n), B)

DoScrollToBottom(B) == Step(Op("ScrollToBottom", <<>>), ScrollToBottom(w), B)

DoReset(B) == Step(Op("Reset", <<>>), Reset(w), B)

DoResize(B) ==
  \E c \in ResizeCols, l \in ResizeLines :
    Step(Op("Resize", <<c, l>>), Resize(w, c, l), B)

DoTab(B) == Step(Op("Tab", <<>>), Tab(w), B)

DoBackspace(B) == Step(Op("Backspace", <<>>), Backspace(w), B)

DoCursorUp1(B) == Step(Op("CursorUp1", <<1>>), CursorUp1(w, 1), B)

DoCursorDown1(B) == Step(Op("CursorDown1", <<1>>), CursorDown1(w, 1), B)

DoCursorToColumn(B) ==
  \E c \in 1..MaxCols : Step(Op("CursorToColumn", <<c>>), CursorToColumn(w, c), B)

DoCursorToLine(B) ==
  \E l \in 1..MaxLines : Step(Op("CursorToLine", <<l>>), CursorToLine(w, l), B)

DoSetTabStop(B) == Step(Op("SetTabStop", <<>>), SetTabStop(w), B)

DoClearTabStop(B) ==
  \E how \in {0, 3} : Step(Op("ClearTabStop", <<how>>), ClearTabStop(w, how), B)

DoSelectGraphicRendition(B) ==
  \E ps \in {<<0>>, <<31>>} :
    Step(Op("SelectGraphicRendition", ps), SelectGraphicRendition(w, ps), B)

DoAlignmentDisplay(B) == Step(Op("AlignmentDisplay", <<>>), AlignmentDisplay(w), B)

\* ScrollUp(n) immediately followed by ScrollDown(n)
DoScrollUpDown(B) ==
  \E n \in 1..(MaxHist + 1) :
    Step(Op("ScrollUpDown", <<n>>),
         Then(ScrollUp(w, n), LAMBDA t : ScrollDown(t, n)), B)

\* ------------------------------------------------ the whole public surface
Init == Start(InitScreens)

Next ==
  \/ DoDraw(MaxSteps)
  \/ DoLinefeed(MaxSteps)
  \/ DoIndex(MaxSteps)
  \/ DoReverseIndex(MaxSteps)
  \/ DoCarriageReturn(MaxSteps)
  \/ DoCursorUp(MaxSteps)
  \/ DoCursorDown(MaxSteps)
  \/ DoCursorForward(MaxSteps)
  \/ DoCursorBack(MaxSteps)
  \/ DoCursorPosition(MaxSteps)
  \/ DoSaveCursor(MaxSteps)
  \/ DoRestoreCursor(MaxSteps)
  \/ DoInsertLines(MaxSteps)
  \/ DoDeleteLines(MaxSteps)
  \/ DoInsertCharacters(MaxSteps)
  \/ DoDeleteCharacters(MaxSteps)
  \/ DoEraseCharacters(MaxSteps)
  \/ DoEraseInLine(MaxSteps)
  \/ DoEraseInDisplay(MaxSteps)
  \/ DoSetMode(MaxSteps)
  \/ DoResetMode(MaxSteps)
  \/ DoScrollUp(MaxSteps)
  \/ DoScrollDown(MaxSteps)
  \/ DoScrollToBottom(MaxSteps)
  \/ DoReset(MaxSteps)
  \/ DoResize(MaxSteps)
  \/ DoTab(MaxSteps)
  \/ DoBackspace(MaxSteps)
  \/ DoCursorUp1(MaxSteps)
  \/ DoCursorDown1(MaxSteps)
  \/ DoCursorToColumn(MaxSteps)
  \/ DoCursorToLine(MaxSteps)
  \/ DoSetTabStop(MaxSteps)
  \/ DoClearTabStop(MaxSteps)
  \/ DoSelectGraphicRendition(MaxSteps)
  \/ DoAlignmentDisplay(MaxSteps)
  \/ DoScrollUpDown(MaxSteps)

Spec == Init /\ [][Next]_vars

\* ------------------------------------- scrollback and buffer switching, deeper
\* The operations that touch the history, the history view and the two
\* buffers, on two-column screens, run for more steps.
ScrollScreens ==
  {NewWideCharScreen(2, l, h) : l \in 1..MaxLines, h \in 1..MaxHist}

InitScroll == Start(ScrollScreens)

NextScroll ==
  \/ DoDraw(MaxScrollSteps)
  \/ DoLinefeed(MaxScrollSteps)
  \/ DoIndex(MaxScrollSteps)
  \/ DoEraseInDisplay(MaxScrollSteps)
  \/ DoSetMode(MaxScrollSteps)
  \/ DoResetMode(MaxScrollSteps)
  \/ DoScrollUp(MaxScrollSteps)
  \/ DoScrollDown(MaxScrollSteps)
  \/ DoScrollToBottom(MaxScrollSteps)
  \/ DoScrollUpDown(MaxScrollSteps)
  \/ DoReset(MaxScrollSteps)
  \/ DoResize(MaxScrollSteps)

SpecScroll == InitScroll /\ [][NextScroll]_vars

\* ===================================================================
\* Properties
\* ===================================================================
Last(seq) == seq[Len(seq)]

\* an operation has run (pre and op describe it)
Ran == steps > 0

\* the cursor position, without attributes and visibility
Pos(c) == <<c.X, c.Y>>

\* the part of grid m that a screen of the given size shows
Visible(m, lines, columns) ==
  [i \in 1..lines |-> [j \in 1..columns |-> m[i][j]]]

\* C1: no sequence of public operations on a screen constructed with
\* columns >= 2 and lines >= 1 reads or writes a cell outside the actual
\* dimensions of the buffer, attrs or widths matrices (no index out of range).
C1_NoIndexOutOfRange == ~w.panic

\* C2: entering the alternate buffer from a live main screen, applying
\* drawing, cursor, erase and linefeed operations, and leaving it restores the
\* main screen exactly: buffer, attributes, width classes, cursor position,
\* tab stops and history are those at entry, and GetDisplay returns the same
\* rows as before entry.
C2_AltRoundTrip ==
  (/\ Ran /\ op.name = "ResetMode"
   /\ pre.usingAlternate /\ ~w.usingAlternate
   /\ entry # <<>> /\ ~entry[1].viewingHistory)
  => /\ ~w.panic
     /\ w.buffer = entry[1].buffer
     /\ w.attrs = entry[1].attrs
     /\ w.cellWidths = entry[1].cellWidths
     /\ Pos(w.cursor) = Pos(entry[1].cursor)
     /\ w.tabStops = entry[1].tabStops
     /\ w.history = entry[1].history
     /\ (GetDisplayOK(w) /\ GetDisplayOK(entry[1])
         => GetDisplay(w) = GetDisplay(entry[1]))

\* C3: while the alternate buffer is active the history is empty, and its
\* size does not change across an operation that stays in alternate mode.
C3_AltHistoryEmpty ==
  /\ w.usingAlternate => Len(w.history) = 0
  /\ (Ran /\ pre.usingAlternate /\ w.usingAlternate)
       => Len(w.history) = Len(pre.history)

\* the last operation made the cursor move past the last row of a live main
\* screen: Linefeed, Index, or a one-rune Draw that autowraps
C4_Captures ==
  /\ Ran /\ ~pre.usingAlternate /\ ~pre.viewingHistory
  /\ pre.cursor.Y = pre.lines - 1
  /\ \/ op.name \in {"Linefeed", "Index"}
     \/ /\ op.name = "Draw" /\ Len(op.args) = 1
        /\ RuneWidth(op.args[1]) > 0 /\ pre.autoWrap
        /\ pre.cursor.X + RuneWidth(op.args[1]) > pre.columns

\* C4: when Linefeed, Index or an autowrap advance happens with the cursor on
\* the last row of a live main screen, the old row 0 is appended to history,
\* every row k < lines-1 then holds what row k+1 held (runes, attributes,
\* width classes, hence its displayed string), the last row is blank, and the
\* cursor stays on the last row.
C4_ScrollCapture ==
  C4_Captures
  => /\ ~w.panic
     /\ \A k \in 1..(pre.lines - 1) :
          /\ w.buffer[k] = pre.buffer[k + 1]
          /\ w.attrs[k] = pre.attrs[k + 1]
          /\ w.cellWidths[k] = pre.cellWidths[k + 1]
          /\ GetDisplay(w)[k] = GetDisplay(pre)[k + 1]
     /\ op.name # "Draw"
          => /\ w.buffer[w.lines] = MakeRow(w.columns, SP)
             /\ w.cellWidths[w.lines] = MakeRow(w.columns, 1)
             /\ GetDisplay(w)[w.lines] = MakeRow(w.columns, SP)
     /\ w.cursor.Y = w.lines - 1
     /\ pre.maxHistory >= 1
          => /\ w.history # <<>>
             /\ Last(w.history).Chars = pre.buffer[1]

\* C7: whenever an operation other than ScrollUp/ScrollDown changes a grid
\* cell or the history while the screen was viewing history, the screen is no
\* longer viewing history after it.
C7_NoMutationWhileViewing ==
  (/\ Ran /\ pre.viewingHistory
   /\ op.name \notin {"ScrollUp", "ScrollDown", "ScrollUpDown"}
   /\ \/ w.buffer # pre.buffer
      \/ w.attrs # pre.attrs
      \/ w.history # pre.history)
  => ~w.viewingHistory

\* C9: for every cell (y, x) of the active width matrix, widths[y][x] is 0,
\* 1 or 2; if it is 2 then x+1 < columns and widths[y][x+1] = 0; if it is 0
\* then x = 0 or widths[y][x-1] is 2 or 0.
C9_WideCellInvariant ==
  ~w.panic =>
    \A y \in 1..Len(w.cellWidths) : \A x \in 1..Len(w.cellWidths[y]) :
      LET v == w.cellWidths[y][x]
      IN /\ v \in {0, 1, 2}
         /\ v = 2 => /\ x + 1 <= w.columns
                     /\ x + 1 <= Len(w.cellWidths[y])
                     /\ w.cellWidths[y][x + 1] = 0
         /\ v = 0 => \/ x = 1
                     \/ w.cellWidths[y][x - 1] \in {0, 2}

\* C10: between any two operations 0 <= cursor.x <= columns-1 and
\* 0 <= cursor.y <= lines-1.
C10_CursorBounds ==
  ~w.panic =>
    /\ 0 <= w.cursor.X /\ w.cursor.X <= w.columns - 1
    /\ 0 <= w.cursor.Y /\ w.cursor.Y <= w.lines - 1

\* new holds, in order, the newest lines of old followed by j appended lines,
\* cut to the newest max
KeepsNewest(old, new, j, max) ==
  /\ Len(new) = Min(max, Len(old) + j)
  /\ \A i \in 1..(Len(new) - j) : new[i] = old[Len(old) - (Len(new) - j) + i]

\* the last operation captured exactly one row: Linefeed or Index on the last
\* row of the main buffer, or a one-rune Draw that autowraps there
C5_CapturesOne ==
  /\ Ran /\ ~w.panic /\ ~pre.usingAlternate
  /\ pre.cursor.Y = pre.lines - 1
  /\ \/ op.name \in {"Linefeed", "Index"}
     \/ C4_Captures

\* the last operation was a Resize to fewer lines
C5_ResizeCuts ==
  /\ Ran /\ ~w.panic /\ op.name = "Resize"
  /\ op.args[1] > 0 /\ op.args[2] > 0 /\ op.args[2] < pre.lines

\* C5: the history is a bounded FIFO: its size never exceeds maxHistory, an
\* append to a full history removes the oldest line, and the history holds
\* the most recently captured lines in capture order.
C5_HistoryBoundedFIFO ==
  /\ Len(w.history) <= w.maxHistory
  /\ C5_CapturesOne
       => /\ KeepsNewest(pre.history, w.history, 1, pre.maxHistory)
          /\ op.name # "Draw"
               => Last(w.history).Chars
                    = CopyInto(MakeRow(pre.columns, NUL), pre.buffer[1])
  /\ C5_ResizeCuts
       => KeepsNewest(pre.history, w.history, pre.lines - op.args[2],
                      pre.maxHistory)
  /\ (Ran /\ ~w.panic)
       => \/ w.history = <<>>
          \/ pre.usingAlternate /\ w.history = pre.mainHistory
          \/ \E j \in 0..MaxLines :
               KeepsNewest(pre.history, w.history, j, pre.maxHistory)

\* a line was appended to a full history of two different lines
C5_Witness ==
  /\ C5_CapturesOne
  /\ Len(pre.history) = pre.maxHistory
  /\ pre.maxHistory = 2
  /\ pre.history[1] # pre.history[2]
  /\ w.history[1] = pre.history[2]

\* the live screen that a history view shadows
LiveOf(s) ==
  [s EXCEPT !.buffer = s.savedBuffer,
            !.attrs = s.savedAttrs,
            !.cursor = [s.savedCursor EXCEPT !.Hidden = FALSE],
            !.savedBuffer = <<>>,
            !.savedAttrs = <<>>,
            !.historyPos = 0,
            !.viewingHistory = FALSE]

\* C6: a Draw or an EraseInDisplay on a screen that is viewing history first
\* returns to the live view: afterwards the screen is not viewing history,
\* the saved live snapshot is gone, and the draw or erase has been applied to
\* the restored live grid at the cursor position saved when scrolling began.
C6_LiveInterrupt ==
  (Ran /\ pre.viewingHistory /\ op.name \in {"Draw", "EraseInDisplay"})
  => /\ ~w.viewingHistory
     /\ w.savedBuffer = <<>> /\ w.savedAttrs = <<>>
     /\ ~w.cursor.Hidden
     /\ op.name = "Draw" => w = DrawLoop(LiveOf(pre), op.args)
     /\ op.name = "EraseInDisplay"
          => w = EraseInDisplay(LiveOf(pre), op.args[1])
     /\ (/\ op.name = "Draw" /\ op.args = <<RuneA>> /\ ~w.panic
         /\ pre.savedCursor.X < pre.columns)
          => /\ At(w.buffer, pre.savedCursor.Y, pre.savedCursor.X) = RuneA
             /\ Pos(w.cursor) = <<pre.savedCursor.X + 1, pre.savedCursor.Y>>

\* a rune was drawn while a history line was on display
C6_Witness ==
  /\ Ran /\ pre.viewingHistory /\ pre.historyPos > 0
  /\ op.name = "Draw" /\ op.args = <<RuneA>>
  /\ ~w.viewingHistory /\ ~w.panic
  /\ w.buffer # pre.buffer
  /\ w.buffer # pre.savedBuffer

\* C8: from a live main view, ScrollUp(n) immediately followed by
\* ScrollDown(n) leaves the visible grid (runes and attributes) and the cursor
\* position as they were, with the cursor unhidden and the screen not viewing
\* history, also when n exceeds the history size.
C8_ScrollRoundTrip ==
  (Ran /\ op.name = "ScrollUpDown" /\ ~pre.usingAlternate /\ ~pre.viewingHistory)
  => /\ ~w.panic
     /\ ~w.viewingHistory
     /\ ~w.cursor.Hidden
     /\ Pos(w.cursor) = Pos(pre.cursor)
     /\ (GridOK(pre.buffer, pre.lines, pre.columns)
         /\ GridOK(pre.attrs, pre.lines, pre.columns))
          => /\ GridOK(w.buffer, pre.lines, pre.columns)
             /\ GridOK(w.attrs, pre.lines, pre.columns)
             /\ Visible(w.buffer, pre.lines, pre.columns)
                  = Visible(pre.buffer, pre.lines, pre.columns)
             /\ Visible(w.attrs, pre.lines, pre.columns)
                  = Visible(pre.attrs, pre.lines, pre.columns)

\* grid m has exactly lines rows of exactly columns cells
ExactShape(m, lines, columns) ==
  /\ Len(m) = lines
  /\ \A i \in 1..Len(m) : Len(m[i]) = columns

\* the last operation asked for a switch to the other buffer
C11_Switches ==
  /\ Ran /\ op.name \in {"SetMode", "ResetMode"}
  /\ IsAltMode(op.args[1])
  /\ pre.usingAlternate = (op.name = "ResetMode")

\* C11: after a Resize in either mode, a later switch to the other buffer
\* yields an active grid whose buffer, attrs and widths matrices each have
\* exactly lines rows of exactly columns cells.
C11_GridShapeAfterSwitch ==
  C11_Switches
  => /\ ~w.panic
     /\ ExactShape(w.buffer, w.lines, w.columns)
     /\ ExactShape(w.attrs, w.lines, w.columns)
     /\ ExactShape(w.cellWidths, w.lines, w.columns)

\* ------------------------------------------- drawing and editing only
\* Draw, Linefeed/Index, scrolling, erase and insert/delete operations (and
\* cursor addressing), with no mode switch, Reset or Resize.
NextEdit ==
  \/ DoDraw(MaxSteps)
  \/ DoLinefeed(MaxSteps)
  \/ DoIndex(MaxSteps)
  \/ DoReverseIndex(MaxSteps)
  \/ DoCursorPosition(MaxSteps)
  \/ DoScrollUp(MaxSteps)
  \/ DoScrollDown(MaxSteps)
  \/ DoScrollToBottom(MaxSteps)
  \/ DoEraseInLine(MaxSteps)
  \/ DoEraseInDisplay(MaxSteps)
  \/ DoEraseCharacters(MaxSteps)
  \/ DoInsertLines(MaxSteps)
  \/ DoDeleteLines(MaxSteps)
  \/ DoInsertCharacters(MaxSteps)
  \/ DoDeleteCharacters(MaxSteps)

SpecEdit == Init /\ [][NextEdit]_vars

\* the display width of a string: the sum of the widths of its runes
RECURSIVE StringWidth(_)
StringWidth(str) ==
  IF str = <<>> THEN 0 ELSE RuneWidth(Head(str)) + StringWidth(Tail(str))

\* C12: GetDisplay returns exactly lines strings and, for every row, the sum
\* of the display widths of the returned code points equals columns, after
\* any sequence of Draw, Linefeed/Index, scrolling, erase and insert/delete
\* operations on a grid with at least 2 columns.
C12_DisplayWidth ==
  ~w.panic
  => /\ GetDisplayOK(w)
     /\ Len(GetDisplay(w)) = w.lines
     /\ \A i \in 1..w.lines : StringWidth(GetDisplay(w)[i]) = w.columns

\* cells (y, p) and (y, p+1) of screen s hold a wide character: a width-2
\* start followed by its width-0 continuation
WidePairAt(s, y, p) ==
  /\ p >= 0 /\ p + 1 < s.columns
  /\ At(s.cellWidths, y, p) = 2 /\ At(s.cellWidths, y, p + 1) = 0
  /\ At(s.buffer, y, p) = RuneWide /\ At(s.buffer, y, p + 1) = NUL

\* cell (y, x) of screen s is a blank: space, default attributes, width 1
BlankCellAt(s, y, x) ==
  /\ At(s.buffer, y, x) = SP
  /\ At(s.attrs, y, x) = DefaultAttributes
  /\ At(s.cellWidths, y, x) = 1

\* the last operation drew one rune of width 1 or 2 at the cursor of a live,
\* well-formed screen, without wrapping
C13_DrawsInPlace ==
  /\ Ran /\ ~w.panic /\ op.name = "Draw" /\ Len(op.args) = 1
  /\ RuneWidth(op.args[1]) > 0
  /\ ~pre.viewingHistory
  /\ ExactShape(pre.buffer, pre.lines, pre.columns)
  /\ ExactShape(pre.attrs, pre.lines, pre.columns)
  /\ ExactShape(pre.cellWidths, pre.lines, pre.columns)
  /\ pre.cursor.Y < pre.lines
  /\ pre.cursor.X + RuneWidth(op.args[1]) <= pre.columns

\* C13: after Draw writes a width-1 or width-2 character onto a cell that is
\* the start or the continuation of an existing wide pair, no cell of that
\* pair keeps its old rune or width class: each is part of the newly written
\* character or reset to space, default attributes, width 1.
C13_OverwriteClearsPair ==
  C13_DrawsInPlace
  => LET X == pre.cursor.X
         Y == pre.cursor.Y
         cw == RuneWidth(op.args[1])
         target == X..(X + cw - 1)
     IN /\ At(w.buffer, Y, X) = op.args[1]
        /\ At(w.cellWidths, Y, X) = cw
        /\ cw = 2 => /\ At(w.buffer, Y, X + 1) = NUL
                     /\ At(w.cellWidths, Y, X + 1) = 0
        /\ \A p \in 0..(pre.columns - 2) :
             (WidePairAt(pre, Y, p) /\ {p, p + 1} \cap target # {})
             => \A c \in {p, p + 1} \ target : BlankCellAt(w, Y, c)

\* C14: after EraseInDisplay(2) or EraseInDisplay(3), from any state, every
\* cell of the grid is a space with default attributes and width class 1:
\* the grid equals the blank grid.
C14_FullErase ==
  (Ran /\ op.name = "EraseInDisplay" /\ op.args[1] \in {2, 3})
  => /\ ~w.panic
     /\ \A y \in 0..(w.lines - 1) : \A x \in 0..(w.columns - 1) :
          /\ CellOK(w.buffer, y, x) /\ At(w.buffer, y, x) = SP
          /\ CellOK(w.attrs, y, x)
          /\ At(w.attrs, y, x) \in {DefaultAttributes, ZeroAttributes}
          /\ CellOK(w.cellWidths, y, x) /\ At(w.cellWidths, y, x) = 1

\* the last operation was an EraseInDisplay on the main buffer
C15_Erases ==
  /\ Ran /\ ~w.panic /\ op.name = "EraseInDisplay"
  /\ ~pre.usingAlternate

\* C15: EraseInDisplay(2) and EraseInDisplay(3) on the main buffer empty the
\* history and reset the scroll offset to zero; EraseInDisplay(0) and
\* EraseInDisplay(1) leave the history unchanged.
C15_EraseClearsHistory ==
  C15_Erases
  => /\ op.args[1] \in {2, 3} => /\ Len(w.history) = 0
                                /\ w.historyPos = 0
     /\ op.args[1] \in {0, 1} => w.history = pre.history

\* a full-screen erase emptied a history that was scrolled into
C15_Witness ==
  /\ C15_Erases /\ op.args[1] = 2
  /\ pre.viewingHistory /\ pre.historyPos > 0
  /\ pre.history # <<>> /\ w.history = <<>>

\* the tab stops of a fresh screen: every 8th column from 0
EveryEighthColumn(columns) == {c \in 0..(columns - 1) : c % TabWidth = 0}

\* C16: Reset from any state (live, viewing history or alternate mode)
\* leaves the screen on the main buffer, not viewing history, with an empty
\* history, the cursor at (0,0), every buffer cell a space, autoWrap and
\* newlineMode true, tab stops at every 8th column from 0, and no saved
\* cursor.
C16_ResetState ==
  (Ran /\ op.name = "Reset")
  => /\ ~w.panic
     /\ ~w.usingAlternate
     /\ ~w.viewingHistory
     /\ Len(w.history) = 0
     /\ Pos(w.cursor) = <<0, 0>>
     /\ \A y \in 1..Len(w.buffer) : \A x \in 1..Len(w.buffer[y]) :
          w.buffer[y][x] = SP
     /\ w.autoWrap /\ w.newlineMode
     /\ w.tabStops = EveryEighthColumn(w.columns)
     /\ w.saved = <<>>

\* C17: Reset is idempotent: the full screen state after Reset; Reset equals
\* the state after a single Reset.
C17_ResetIdempotent ==
  (Ran /\ op.name = "Reset" /\ ~w.panic) => Reset(w) = w

\* a Reset that left the alternate buffer and changed the screen
C17_Witness ==
  /\ Ran /\ op.name = "Reset" /\ ~w.panic
  /\ pre.usingAlternate /\ pre.cursor.X > 0
  /\ w # pre /\ Reset(w) = w

\* ------------------------------------------- the three alternate modes
AltModes == {ModeAlt47, ModeAlt1047, ModeAlt1049}

AltModeLists == {<<m>> : m \in AltModes} \cup {<<ModeAlt1049, ModeAlt47>>}

DoSetAltMode(B) ==
  \E ms \in AltModeLists : Step(Op("SetMode", ms), SetMode(w, ms, TRUE), B)

DoResetAltMode(B) ==
  \E ms \in AltModeLists : Step(Op("ResetMode", ms), ResetMode(w, ms, TRUE), B)

NextAlt ==
  \/ DoSetAltMode(MaxAltSteps)
  \/ DoResetAltMode(MaxAltSteps)
  \/ DoDraw(MaxAltSteps)
  \/ DoLinefeed(MaxAltSteps)
  \/ DoCursorPosition(MaxAltSteps)
  \/ DoSaveCursor(MaxAltSteps)
  \/ DoEraseInDisplay(MaxAltSteps)

SpecAlt == InitScroll /\ [][NextAlt]_vars

\* the last operation set alternate-screen modes only, with the alternate
\* buffer already active
C18_EntersAgain ==
  /\ Ran /\ op.name = "SetMode" /\ pre.usingAlternate
  /\ \A i \in 1..Len(op.args) : IsAltMode(op.args[i])

\* C18: entering alternate mode while already in alternate mode is a no-op:
\* a second SetMode of private 1049, 1047 or 47 changes neither the alternate
\* grid, the cursor, nor the stashed main state, so that a later exit
\* restores the same main screen as it would have without the second entry.
C18_ReenterNoOp ==
  C18_EntersAgain
  => /\ w = pre
     /\ \A m \in AltModes :
          ResetMode(w, <<m>>, TRUE) = ResetMode(pre, <<m>>, TRUE)

\* a second entry, by another mode number, into a drawn-on alternate buffer
C18_Witness ==
  /\ C18_EntersAgain /\ op.args = <<ModeAlt47>>
  /\ pre.buffer # pre.mainBuffer
  /\ pre.mainBuffer # MakeGrid(pre.lines, pre.columns, SP)
  /\ Pos(pre.cursor) # <<0, 0>>
  /\ w.buffer = pre.buffer /\ w.mainBuffer = pre.mainBuffer

\* ------------------------------------------- Resize on taller screens
ResizeScreens ==
  {NewWideCharScreen(2, l, h) : l \in 1..MaxResizeLines, h \in 1..MaxHist}

InitResize == Start(ResizeScreens)

DoResizeTo(B) ==
  \E c \in 1..MaxCols, l \in 1..MaxResizeLines :
    Step(Op("Resize", <<c, l>>), Resize(w, c, l), B)

NextResize ==
  \/ DoResizeTo(MaxResizeSteps)
  \/ DoDraw(MaxResizeSteps)
  \/ DoLinefeed(MaxResizeSteps)
  \/ DoScrollUp(MaxResizeSteps)
  \/ DoSetMode(MaxResizeSteps)
  \/ DoResetMode(MaxResizeSteps)

SpecResize == InitResize /\ [][NextResize]_vars

\* the history line that captures row y (from 0) of screen s
CapturedRow(s, y) ==
  [Chars |-> CopyInto(MakeRow(s.columns, NUL), s.buffer[y + 1]),
   Attrs |-> CopyInto(MakeRow(s.columns, ZeroAttributes), s.attrs[y + 1])]

\* the last operation was a Resize of a live main screen to fewer lines
C19_Shrinks ==
  /\ Ran /\ ~w.panic /\ op.name = "Resize"
  /\ op.args[1] > 0 /\ op.args[2] > 0 /\ op.args[2] < pre.lines
  /\ ~pre.usingAlternate /\ ~pre.viewingHistory

C20_Grows ==
  /\ Ran /\ op.name = "Resize"
  /\ op.args[1] >= pre.columns /\ op.args[2] >= pre.lines
  /\ ~pre.usingAlternate /\ ~pre.viewingHistory /\ ~pre.panic
  /\ GridOK(pre.buffer, pre.lines, pre.columns)
  /\ GridOK(pre.attrs, pre.lines, pre.columns)
  /\ GridOK(pre.cellWidths, pre.lines, pre.columns)

\* C20: Resize(c, l) with c >= columns and l >= lines on a live main screen
\* leaves every cell of the old rectangle unchanged in rune, attributes and
\* width class, so a wide character stays a width-2 start followed by a
\* width-0 continuation, and GetDisplay() of each old row is the old string
\* padded with spaces.
C20_ResizePreserves ==
  C20_Grows
  => /\ ~w.panic
     /\ \A y \in 0..(pre.lines - 1) : \A x \in 0..(pre.columns - 1) :
          /\ CellOK(w.buffer, y, x) /\ CellOK(w.attrs, y, x)
          /\ CellOK(w.cellWidths, y, x)
          /\ At(w.buffer, y, x) = At(pre.buffer, y, x)
          /\ At(w.attrs, y, x) = At(pre.attrs, y, x)
          /\ At(w.cellWidths, y, x) = At(pre.cellWidths, y, x)
     /\ \A i \in 1..pre.lines :
          GetDisplay(w)[i]
            = GetDisplay(pre)[i] \o [j \in 1..(op.args[1] - pre.columns) |-> SP]

\* the last operation was a Resize with a non-positive argument
C21_BadResize ==
  Ran /\ op.name = "Resize" /\ (op.args[1] <= 0 \/ op.args[2] <= 0)

\* C21: Resize with a zero or negative columns or lines argument is ignored:
\* dimensions, grid contents, cursor, history, width matrices and the
\* viewing-history and alternate flags (the whole screen state) are unchanged.
C21_BadResizeIgnored == C21_BadResize => w = pre

\* a negative Resize arrived while history was being viewed and left the view
C21_Witness ==
  /\ C21_BadResize /\ op.args[1] < 0
  /\ pre.viewingHistory /\ w.viewingHistory /\ Len(w.history) > 0

\* the last operation drew one width-1 character with the cursor past the
\* end of the line and autowrap off, on a well-formed live screen
C22_DrawsPastEnd ==
  /\ Ran /\ op.name = "Draw" /\ op.args = <<RuneA>>
  /\ ~pre.autoWrap /\ pre.cursor.X = pre.columns
  /\ ~pre.viewingHistory /\ ~pre.panic
  /\ pre.cursor.Y >= 0 /\ pre.cursor.Y < pre.lines
  /\ GridOK(pre.buffer, pre.lines, pre.columns)
  /\ GridOK(pre.attrs, pre.lines, pre.columns)
  /\ GridOK(pre.cellWidths, pre.lines, pre.columns)

\* C22: with autowrap off, Draw of a width-1 character with
\* cursor.x = columns stores that character in cell columns-1 of the current
\* row and does not move to another row.
C22_OverwritesLastColumn ==
  C22_DrawsPastEnd
  => /\ ~w.panic
     /\ w.cursor.Y = pre.cursor.Y
     /\ At(w.buffer, pre.cursor.Y, pre.columns - 1) = RuneA

\* ------------------------------------------ the 4 x 2 end-to-end scenarios
InitScenario == Start({NewWideCharScreen(4, 2, h) : h \in 0..MaxHist})

DoDrawText(B) ==
  \E t \in {<<RuneA, RuneB, RuneWide>>, <<RuneA, RuneB>>, <<RuneA>>, <<RuneWide>>,
             <<RuneWide, RuneA>>} :
    Step(Op("Draw", t), Draw(w, t), B)

NextScenario ==
  \/ DoDrawText(MaxSteps)
  \/ DoLinefeed(MaxSteps)
  \/ DoCarriageReturn(MaxSteps)
  \/ DoBackspace(MaxSteps)
  \/ DoEraseCharacters(MaxSteps)

SpecScenario == InitScenario /\ [][NextScenario]_vars

\* "ab" and one width-2 character were drawn on a blank 4 x 2 screen with
\* autowrap on
C23_Scenario ==
  /\ Ran /\ op.name = "Draw" /\ op.args = <<RuneA, RuneB, RuneWide>>
  /\ pre = NewWideCharScreen(4, 2, pre.maxHistory) /\ pre.autoWrap

\* C23 as stated: the wide character does not fit after "ab" on a 4-column
\* row, so row 0 is 'a','b', blank, blank, the wide character occupies
\* columns 0-1 of row 1 and the cursor ends at (x=2, y=1).
C23_WideAtEdgeWraps ==
  C23_Scenario
  => /\ w.buffer[1] = <<RuneA, RuneB, SP, SP>>
     /\ At(w.buffer, 1, 0) = RuneWide
     /\ At(w.cellWidths, 1, 0) = 2 /\ At(w.cellWidths, 1, 1) = 0
     /\ w.cursor.X = 2 /\ w.cursor.Y = 1

\* C23 as amended: the pair fits in columns 2-3 of row 0 (2 + 2 is not more
\* than 4), so row 0 is 'a','b', wide start, continuation, row 1 stays
\* blank and the cursor ends at (x=4, y=0).
C23_WideAtEdgeFits ==
  C23_Scenario
  => /\ ~w.panic
     /\ w.buffer[1] = <<RuneA, RuneB, RuneWide, NUL>>
     /\ w.cellWidths[1] = <<1, 1, 2, 0>>
     /\ w.buffer[2] = <<SP, SP, SP, SP>>
     /\ w.cellWidths[2] = <<1, 1, 1, 1>>
     /\ w.cursor.X = 4 /\ w.cursor.Y = 0

C23_Witness ==
  /\ C23_Scenario
  /\ At(w.buffer, 0, 2) = RuneWide /\ At(w.cellWidths, 0, 3) = 0
  /\ GetDisplay(w)[1] = <<RuneA, RuneB, RuneWide>>

\* ----------------------------------- view scrolling with any line count
DoScrollUpAny(B) ==
  \E n \in (-1)..2 : Step(Op("ScrollUp", <<n>>), ScrollUp(w, n), B)

DoScrollDownAny(B) ==
  \E n \in (-1)..2 : Step(Op("ScrollDown", <<n>>), ScrollDown(w, n), B)

NextView ==
  \/ DoScrollUpAny(MaxScrollSteps)
  \/ DoScrollDownAny(MaxScrollSteps)
  \/ DoScrollToBottom(MaxScrollSteps)
  \/ DoDraw(MaxScrollSteps)
  \/ DoLinefeed(MaxScrollSteps)
  \/ DoSetMode(MaxScrollSteps)
  \/ DoResetMode(MaxScrollSteps)

SpecView == InitScroll /\ [][NextView]_vars

\* C24: after every ScrollUp(n), including n = 0, n < 0 and an empty
\* history, whenever IsViewingHistory() is true the saved-live snapshot
\* exists and the cursor is hidden.
C24_ViewingHidesCursor ==
  (Ran /\ op.name = "ScrollUp" /\ ~w.panic /\ w.viewingHistory)
  => (w.savedBuffer # <<>> /\ w.cursor.Hidden)

\* ------------------------------------------ SGR with full parameter lists
DoSgr(B) ==
  \E ps \in
    {<<>>}
      \cup {<<p>> : p \in {0, 1, 2, 3, 4, 5, 7, 9, 22, 23, 24, 25, 27, 29, 39, 49, 99}
                            \cup (30..37) \cup (40..47)}
      \cup {<<1, 31>>, <<1, 0>>, <<0, 4>>, <<7, 44, 3>>,
            <<38, 5, 9>>, <<48, 5, 9>>, <<38, 5, 200, 1>>, <<4, 48, 5, 0>>,
            <<38>>, <<38, 5>>, <<48, 7>>,
            <<38, 2, 1, 4, 7>>, <<38, 2, 255, 0, 0>>, <<38, 2, 200, 99, 6>>,
            <<48, 2, 31, 255, 9>>, <<48, 2, 200, 99, 6>>} :
    Step(Op("SelectGraphicRendition", ps), SelectGraphicRendition(w, ps), B)

NextSgr ==
  \/ DoSgr(MaxSgrSteps)
  \/ DoDraw(MaxSgrSteps)

SpecSgr == InitScenario /\ [][NextSgr]_vars

\* the SGR table, one code at a time
C25_Palette ==
  <<"black", "red", "green", "brown", "blue", "magenta", "cyan", "white">>

C25_Flag(p) ==
  CASE p \in {1, 22} -> "Bold"
    [] p \in {3, 23} -> "Italics"
    [] p \in {4, 24} -> "Underscore"
    [] p \in {5, 25} -> "Blink"
    [] p \in {7, 27} -> "Reverse"
    [] p \in {9, 29} -> "Strikethrough"

C25_One(a, p) ==
  IF p = 0 THEN [Fg |-> "default", Bg |-> "default", Bold |-> FALSE,
                 Italics |-> FALSE, Underscore |-> FALSE,
                 Strikethrough |-> FALSE, Reverse |-> FALSE, Blink |-> FALSE]
  ELSE IF p \in {1, 3, 4, 5, 7, 9} THEN [a EXCEPT ![C25_Flag(p)] = TRUE]
  ELSE IF p \in {22, 23, 24, 25, 27, 29} THEN [a EXCEPT ![C25_Flag(p)] = FALSE]
  ELSE IF p \in 30..37 THEN [a EXCEPT !.Fg = C25_Palette[p - 29]]
  ELSE IF p \in 40..47 THEN [a EXCEPT !.Bg = C25_Palette[p - 39]]
  ELSE IF p = 39 THEN [a EXCEPT !.Fg = "default"]
  ELSE IF p = 49 THEN [a EXCEPT !.Bg = "default"]
  ELSE a

\* the table applied to a list, left to right
RECURSIVE C25_Decode(_, _)
C25_Decode(a, ps) ==
  IF ps = <<>> THEN a
  ELSE IF Head(ps) \in {38, 48} /\ Len(ps) >= 3 /\ ps[2] = 5
  THEN C25_Decode(IF Head(ps) = 38
                  THEN [a EXCEPT !.Fg = "color" \o ToString(ps[3])]
                  ELSE [a EXCEPT !.Bg = "color" \o ToString(ps[3])],
                  SubSeq(ps, 4, Len(ps)))
  ELSE C25_Decode(C25_One(a, Head(ps)), Tail(ps))

C26_TrueColour ==
  /\ Ran /\ op.name = "SelectGraphicRendition"
  /\ Len(op.args) = 5 /\ op.args[1] \in {38, 48} /\ op.args[2] = 2

\* C26: SelectGraphicRendition([38,2,r,g,b]) changes at most the foreground
\* colour tag and SelectGraphicRendition([48,2,r,g,b]) at most the
\* background colour tag: 2, r, g, b are never interpreted as SGR codes.
C26_TrueColourOnlyColour ==
  C26_TrueColour
  => IF op.args[1] = 38
     THEN w = [pre EXCEPT !.cursor.Attrs.Fg = w.cursor.Attrs.Fg]
     ELSE w = [pre EXCEPT !.cursor.Attrs.Bg = w.cursor.Attrs.Bg]

\* the last operation entered the alternate buffer from a main screen that
\* was viewing history
C27_EntersWhileViewing ==
  /\ Ran /\ op.name = "SetMode" /\ IsAltMode(op.args[1])
  /\ ~pre.usingAlternate /\ pre.viewingHistory /\ ~pre.panic
  /\ pre.savedBuffer # <<>>

\* C27: entering alternate mode while viewing history exits the history
\* view first: IsViewingHistory() becomes false, the saved-live snapshot is
\* consumed, and what is stashed as the main screen is the live main grid
\* and cursor as they were before ScrollUp, not the history rendering with
\* a hidden cursor.
C27_AltEntryLeavesView ==
  C27_EntersWhileViewing
  => /\ ~w.panic /\ w.usingAlternate
     /\ ~w.viewingHistory
     /\ w.savedBuffer = <<>>
     /\ w.mainBuffer = pre.savedBuffer
     /\ w.mainAttrs = pre.savedAttrs
     /\ w.mainCursor.X = pre.savedCursor.X
     /\ w.mainCursor.Y = pre.savedCursor.Y
     /\ ~w.mainCursor.Hidden

\* the last operation was ScrollUp(n) with n >= 1 on the main screen
C28_ScrollsUp ==
  /\ Ran /\ op.name = "ScrollUp" /\ op.args[1] >= 1
  /\ ~pre.usingAlternate /\ ~pre.panic

\* C28: after ScrollUp(n) with n >= 1 on a main screen with H history lines
\* and previous offset p0, the offset is p = min(p0 + n, H), never more than
\* H, and view row i for 0 <= i < min(p, lines) shows history line
\* H - p + i.
C28_ScrollUpClampsAndRenders ==
  C28_ScrollsUp
  => LET H == Len(pre.history)
         p == Min(pre.historyPos + op.args[1], H)
     IN /\ ~w.panic
        /\ w.historyPos = p
        /\ w.historyPos <= H
        /\ \A i \in 0..(Min(p, w.lines) - 1) :
             /\ RowOK(w.buffer, i) /\ Len(w.buffer[i + 1]) >= w.columns
             /\ [j \in 1..w.columns |-> w.buffer[i + 1][j]]
                  = CopyInto(MakeRow(w.columns, SP), pre.history[H - p + i + 1].Chars)

\* the last operation was a view scroll that the claim calls a no-op
C29_ViewNoOp ==
  /\ Ran
  /\ \/ /\ op.name \in {"ScrollDown", "ScrollToBottom"}
        /\ ~pre.usingAlternate /\ ~pre.viewingHistory
     \/ /\ op.name \in {"ScrollUp", "ScrollDown", "ScrollToBottom"}
        /\ pre.usingAlternate

\* C29: ScrollDown(n) for any n and ScrollToBottom() on a live main view,
\* and ScrollUp(n), ScrollDown(n), ScrollToBottom() in alternate mode, leave
\* the entire screen state (grid, cursor with its hidden flag, history,
\* offset, viewing flag) unchanged.
C29_ViewScrollNoOps == C29_ViewNoOp => w = pre

\* ScrollUp arrived in alternate mode while the main screen had history
C29_Witness ==
  /\ C29_ViewNoOp /\ op.name = "ScrollUp" /\ op.args[1] > 0
  /\ pre.usingAlternate /\ Len(pre.mainHistory) > 0
  /\ ~w.viewingHistory /\ ~w.cursor.Hidden

\* the last operation was a Reset of a well-formed screen
C30_Resets ==
  /\ Ran /\ op.name = "Reset" /\ ~pre.panic
  /\ GridOK(pre.buffer, pre.lines, pre.columns)
  /\ GridOK(pre.attrs, pre.lines, pre.columns)
  /\ GridOK(pre.cellWidths, pre.lines, pre.columns)
  /\ GridOK(pre.altBuffer, pre.lines, pre.columns)
  /\ GridOK(pre.altAttrs, pre.lines, pre.columns)
  /\ pre.usingAlternate
       => (GridOK(pre.mainBuffer, pre.lines, pre.columns)
           /\ GridOK(pre.mainAttrs, pre.lines, pre.columns))

\* C30: Reset reinitializes the width matrix with the rest of the grid:
\* after Reset every cell has width class 1, so GetDisplay() returns `lines`
\* rows each consisting of exactly `columns` spaces.
C30_ResetClearsWidths ==
  C30_Resets
  => /\ ~w.panic
     /\ \A y \in 0..(w.lines - 1) : \A x \in 0..(w.columns - 1) :
          CellOK(w.cellWidths, y, x) /\ At(w.cellWidths, y, x) = 1
     /\ GetDisplay(w) = [i \in 1..w.lines |-> [j \in 1..w.columns |-> SP]]

\* the active grids of s have the shape lines x columns and the cursor is on
\* a row of the screen, at a column or just past the last one
C31_WellFormed(s) ==
  /\ ~s.panic
  /\ GridOK(s.buffer, s.lines, s.columns)
  /\ GridOK(s.attrs, s.lines, s.columns)
  /\ GridOK(s.cellWidths, s.lines, s.columns)
  /\ s.cursor.Y >= 0 /\ s.cursor.Y < s.lines
  /\ s.cursor.X >= 0 /\ s.cursor.X <= s.columns

\* the last operation drew one width-2 character with autowrap on, on a live
\* well-formed screen
C31_DrawsWide ==
  /\ Ran /\ op.name = "Draw" /\ op.args = <<RuneWide>>
  /\ pre.autoWrap /\ ~pre.viewingHistory /\ pre.columns >= 2
  /\ C31_WellFormed(pre)

\* C31: a width-2 character drawn with autowrap on is never split across
\* the right edge: it wraps to column 0 of the next row (scrolling if on the
\* last row) exactly when cursor.x + 2 > columns, both of its cells end up
\* on the same row (start with width 2, continuation at x+1 with rune 0 and
\* width 0), and the cursor advances by 2.
C31_WideNeverSplit ==
  C31_DrawsWide
  => LET wraps == pre.cursor.X + 2 > pre.columns
         scrolls == wraps /\ pre.cursor.Y = pre.lines - 1
         x == IF wraps THEN 0 ELSE pre.cursor.X
         y == IF wraps /\ ~scrolls THEN pre.cursor.Y + 1 ELSE pre.cursor.Y
     IN /\ ~w.panic
        /\ w.cursor.Y = y /\ w.cursor.X = x + 2
        /\ At(w.buffer, y, x) = RuneWide /\ At(w.cellWidths, y, x) = 2
        /\ At(w.buffer, y, x + 1) = NUL /\ At(w.cellWidths, y, x + 1) = 0
        /\ \A i \in 1..(pre.lines - 1) :
             w.buffer[i] = IF scrolls THEN pre.buffer[i + 1]
                           ELSE IF i = y + 1 THEN w.buffer[i] ELSE pre.buffer[i]

\* a wide character drawn at the last column of the last row scrolled the
\* screen and landed whole on the new last row
C31_Witness ==
  /\ C31_DrawsWide
  /\ pre.cursor.X = pre.columns - 1 /\ pre.cursor.Y = pre.lines - 1
  /\ pre.lines = 2 /\ At(pre.buffer, 1, 0) = RuneA
  /\ At(w.buffer, 0, 0) = RuneA
  /\ At(w.buffer, 1, 0) = RuneWide /\ At(w.cellWidths, 1, 1) = 0
  /\ w.cursor.X = 2

\* the wide pairs of row y of s are well formed: a width-2 cell is followed
\* by a width-0 cell, and a width-0 cell follows a width-2 cell
C32_RowPairsOK(s, y) ==
  \A x \in 0..(s.columns - 1) :
    /\ At(s.cellWidths, y, x) \in {0, 1, 2}
    /\ At(s.cellWidths, y, x) = 2
         => (x + 1 < s.columns /\ At(s.cellWidths, y, x + 1) = 0)
    /\ At(s.cellWidths, y, x) = 0
         => (x > 0 /\ At(s.cellWidths, y, x - 1) = 2)

\* the last operation was CursorForward or CursorBack from a cell that is
\* not a continuation, on a row whose pairs are well formed
C32_MovesOnRow ==
  /\ Ran /\ op.name \in {"CursorForward", "CursorBack"}
  /\ C31_WellFormed(pre) /\ pre.cursor.X < pre.columns
  /\ C32_RowPairsOK(pre, pre.cursor.Y)
  /\ At(pre.cellWidths, pre.cursor.Y, pre.cursor.X) # 0

\* C32: on a row whose wide pairs are well formed, if the cursor does not
\* start on a continuation cell then after CursorForward(n) or CursorBack(n)
\* it does not rest on a continuation cell, and 0 <= cursor.x <= columns-1;
\* this includes CursorForward from a wide start in the last two columns.
C32_CursorOnVisibleCell ==
  C32_MovesOnRow
  => /\ ~w.panic
     /\ w.cursor.X >= 0 /\ w.cursor.X <= w.columns - 1
     /\ At(w.cellWidths, w.cursor.Y, w.cursor.X) # 0

\* the number of cells that n logical character positions occupy on row y
\* of s from column x on, a wide pair counting as one position
RECURSIVE C33_Span(_, _, _, _)
C33_Span(s, y, x, n) ==
  IF n <= 0 \/ x >= s.columns THEN 0
  ELSE LET k == IF At(s.cellWidths, y, x) = 2 THEN 2 ELSE 1
       IN k + C33_Span(s, y, x + k, n - 1)

\* the last operation was EraseCharacters(n) with the cursor on a cell that
\* is not a continuation, on a row whose pairs are well formed
C33_Erases ==
  /\ Ran /\ op.name = "EraseCharacters" /\ op.args[1] >= 1
  /\ ~pre.viewingHistory
  /\ C31_WellFormed(pre) /\ pre.cursor.X < pre.columns
  /\ C32_RowPairsOK(pre, pre.cursor.Y)
  /\ At(pre.cellWidths, pre.cursor.Y, pre.cursor.X) # 0

\* C33: EraseCharacters(n) erases n logical character positions to the
\* right starting at the cursor, a wide pair counting as one position (a
\* wide character followed by a width-1 character and EraseCharacters(2)
\* blanks all three cells); it never leaves half of a wide pair behind and
\* does not move the cursor.
C33_ErasesLogicalPositions ==
  C33_Erases
  => LET y == pre.cursor.Y
         x0 == pre.cursor.X
         last == x0 + C33_Span(pre, y, x0, op.args[1]) - 1
     IN /\ ~w.panic
        /\ w.cursor = pre.cursor
        /\ C32_RowPairsOK(w, y)
        /\ \A x \in 0..(pre.columns - 1) :
             IF x >= x0 /\ x <= last
             THEN At(w.buffer, y, x) = SP /\ At(w.cellWidths, y, x) = 1
             ELSE /\ At(w.buffer, y, x) = At(pre.buffer, y, x)
                  /\ At(w.cellWidths, y, x) = At(pre.cellWidths, y, x)

\* the last operation drew one zero-width code point on a live well-formed
\* screen
C34_DrawsZeroWidth ==
  /\ Ran /\ op.name = "Draw" /\ op.args = <<RuneComb>>
  /\ ~pre.viewingHistory /\ C31_WellFormed(pre)

DoNativeDraw(B) == \E t \in Texts : Step(Op("NativeDraw", t), NativeDraw(w, t), B)

DoHistoryDraw(B) == \E t \in Texts : Step(Op("HistoryDraw", t), HistoryDraw(w, t), B)

DoAlternateDraw(B) ==
  \E t \in Texts : Step(Op("AlternateDraw", t), AlternateDraw(w, t), B)

NextLayers ==
  \/ DoNativeDraw(MaxSteps)
  \/ DoHistoryDraw(MaxSteps)
  \/ DoAlternateDraw(MaxSteps)
  \/ DoDraw(MaxSteps)
  \/ DoSelectGraphicRendition(MaxSteps)
  \/ DoSetMode(MaxSteps)
  \/ DoResetMode(MaxSteps)

SpecLayers == InitScroll /\ [][NextLayers]_vars

\* one ordinary character drawn by any layer's Draw on a well-formed live
\* screen with autowrap on
C35_DrawsOne ==
  /\ Ran
  /\ op.name \in {"NativeDraw", "HistoryDraw", "AlternateDraw", "Draw"}
  /\ op.args = <<RuneA>>
  /\ C31_WellFormed(pre)
  /\ pre.autoWrap
  /\ ~pre.viewingHistory

\* C35: at every layer the cell a Draw writes holds the drawn character and the
\* attributes the cursor carried when the Draw ran.
C35_DrawStoresCursorAttrs ==
  C35_DrawsOne =>
    /\ ~w.panic
    /\ w.cursor.X >= 1
    /\ At(w.buffer, w.cursor.Y, w.cursor.X - 1) = RuneA
    /\ At(w.attrs, w.cursor.Y, w.cursor.X - 1) = pre.cursor.Attrs

\* ------------------------------------------------------------------- C36
\* the main screen m with nothing drawn on it: same size, cursor, modes and
\* history, every cell blank
C36_BlankMain(m) ==
  LET new == NewWideCharScreen(m.columns, m.lines, m.maxHistory)
  IN [m EXCEPT !.buffer = new.buffer, !.attrs = new.attrs,
               !.cellWidths = new.cellWidths]

\* the first Draw after entering the alternate buffer from a well-formed live
\* main screen
C36_FirstAltDraw(m) ==
  /\ Ran
  /\ op.name = "Draw"
  /\ entry # <<>>
  /\ C31_WellFormed(entry[1])
  /\ ~entry[1].viewingHistory
  /\ pre = SetMode(entry[1], <<m>>, TRUE)
  /\ pre.usingAlternate

\* C36: what the alternate screen holds and shows after a Draw does not depend
\* on what was drawn on the main screen before the alternate buffer was
\* entered.
C36_AltIgnoresMainContent ==
  \A m \in {ModeAlt47, ModeAlt1047, ModeAlt1049} :
    C36_FirstAltDraw(m) =>
      LET twin == Draw(SetMode(C36_BlankMain(entry[1]), <<m>>, TRUE), op.args)
      IN /\ w.buffer = twin.buffer
         /\ w.attrs = twin.attrs
         /\ GetDisplayOK(w) /\ GetDisplayOK(twin)
         /\ GetDisplay(w) = GetDisplay(twin)

\* ------------------------------------------------------------------- C37
\* the last operation was ScrollUp(n), n >= 1, from the live main screen with
\* a well-formed grid, and it left the screen viewing history at offset >= 1
C37_OpensView ==
  /\ Ran /\ op.name = "ScrollUp" /\ op.args[1] >= 1
  /\ ~pre.usingAlternate /\ ~pre.viewingHistory
  /\ C31_WellFormed(pre)
  /\ ~w.panic
  /\ w.historyPos >= 1 /\ w.historyPos <= Len(pre.history)

\* C37: the view at offset p is the window of lines rows that starts at
\* position H - p of the history lines followed by the live rows saved when
\* the view was opened.
C37_ViewIsContiguousWindow ==
  C37_OpensView
  => LET H == Len(pre.history)
         p == w.historyPos
         all == [k \in 1..H |-> pre.history[k].Chars] \o pre.buffer
     IN \A i \in 0..(w.lines - 1) :
          /\ RowOK(w.buffer, i)
          /\ w.buffer[i + 1] = CopyInto(MakeRow(w.columns, SP), all[H - p + i + 1])

\* ------------------------------------------------------------------- C38
\* SetMode private 1048 on the main screen, a cursor move, a round trip through
\* the alternate buffer with a cursor move there, then ResetMode private 1048
SaveCursorRoundTrip(s, l, c, m) ==
  LET saved == SetMode(s, <<ModeSaveCursor1048>>, TRUE)
      moved == Then(saved, LAMBDA t : CursorPosition(t, l, c))
      inAlt == Then(moved, LAMBDA t : SetMode(t, <<m>>, TRUE))
      movedAlt == Then(inAlt, LAMBDA t : CursorPosition(t, 1, 1))
      back == Then(movedAlt, LAMBDA t : ResetMode(t, <<m>>, TRUE))
  IN Then(back, LAMBDA t : ResetMode(t, <<ModeSaveCursor1048>>, TRUE))

DoSaveCursorRoundTrip(B) ==
  \E l \in 1..MaxLines, c \in 1..MaxCols, m \in {ModeAlt47, ModeAlt1047, ModeAlt1049} :
    Step(Op("SaveCursorRoundTrip", <<l, c, m>>), SaveCursorRoundTrip(w, l, c, m), B)

NextSlot ==
  \/ DoSaveCursorRoundTrip(MaxSteps)
  \/ DoDraw(MaxSteps)
  \/ DoLinefeed(MaxSteps)
  \/ DoCursorPosition(MaxSteps)
  \/ DoSetMode(MaxSteps)
  \/ DoResetMode(MaxSteps)

SpecSlot == InitScroll /\ [][NextSlot]_vars

\* the round trip ran on a well-formed live main screen
C38_RoundTrips ==
  /\ Ran /\ op.name = "SaveCursorRoundTrip"
  /\ C31_WellFormed(pre)
  /\ ~pre.usingAlternate /\ ~pre.viewingHistory

\* C38: the cursor restored by ResetMode private 1048 on the main screen is
\* the cursor that SetMode private 1048 saved there, whatever cursor moves and
\* buffer switches happened in between.
C38_SlotSurvivesSwitch ==
  C38_RoundTrips => ~w.panic /\ Pos(w.cursor) = Pos(pre.cursor)

\* ------------------------------------------------------------------- C39
\* C39: the screen is never at once on the alternate buffer and viewing
\* history, and on the alternate buffer the scroll offset is 0.
C39_AltNeverViews ==
  (~w.panic /\ w.usingAlternate) => (~w.viewingHistory /\ w.historyPos = 0)

\* the alternate buffer was entered from a history view, or a view scroll was
\* asked for on the alternate buffer
C39_Witness ==
  /\ Ran /\ ~w.panic /\ w.usingAlternate
  /\ \/ op.name = "SetMode" /\ pre.viewingHistory /\ pre.historyPos > 0
     \/ op.name = "ScrollUp" /\ pre.usingAlternate

\* ------------------------------------------------------------------- C40
\* the scrollback of the main screen, wherever buffer switching keeps it
C40_MainHistory(s) == IF s.usingAlternate THEN s.mainHistory ELSE s.history

\* C40: a captured history line never changes: after every operation the main
\* screen's history is its previous history, less the lines evicted from the
\* front, followed by the lines the operation captured, or it was cleared by
\* EraseInDisplay or Reset; operations that capture nothing leave it equal.
C40_HistoryLinesImmutable ==
  (Ran /\ ~w.panic)
  => LET old == C40_MainHistory(pre)
         new == C40_MainHistory(w)
     IN /\ \/ new = <<>> /\ op.name \in {"EraseInDisplay", "Reset"}
           \/ \E j \in 0..MaxLines : KeepsNewest(old, new, j, pre.maxHistory)
        /\ op.name \in {"ScrollUp", "ScrollDown", "ScrollToBottom", "SetMode",
                        "ResetMode", "EraseInLine", "EraseCharacters",
                        "InsertLines", "DeleteLines", "InsertCharacters",
                        "DeleteCharacters", "CursorPosition", "CarriageReturn"}
             => new = old

\* a history view was rendered from a history that holds a drawn line
C40_Witness ==
  /\ Ran /\ ~w.panic
  /\ op.name = "ScrollUp"
  /\ w.viewingHistory /\ w.historyPos >= 1
  /\ pre.history # <<>>
  /\ Last(pre.history).Chars[1] = RuneA
  /\ At(w.buffer, 0, 0) = RuneA
  /\ w.history = pre.history
====
